---- MODULE Spec2Model ----
(***************************************************************************)
(* Preference-extraction pipeline of TasteMaker: the session phase         *)
(* machine (comparison, lock-in, exploration and component-studio routes), *)
(* the pattern analyzer, and the persistence of style rules.               *)
(*                                                                         *)
(* One extraction session is modelled (sessions never share state).        *)
(* Python None is the empty set in an optional JSON column ({} = NULL,     *)
(* {m} = the JSON text of m) and the string Null in an optional string.    *)
(* A style value is kept in its str() rendering, which is the form the     *)
(* analyzer's "property=value" keys are built from.  Floats of the         *)
(* analyzer are exact rationals [num, den].                                *)
(***************************************************************************)
EXTENDS Integers, Naturals, Sequences, FiniteSets, Bags, TLC

VARIABLES
    phase,                    \* ExtractionSessionModel.phase
    comparison_count,         \* ExtractionSessionModel.comparison_count
    confidence_score,         \* ExtractionSessionModel.confidence_score (rational)
    established_preferences,  \* ExtractionSessionModel.established_preferences (JSON)
    chosen_colors,            \* ExtractionSessionModel.chosen_colors (JSON, {} = NULL)
    chosen_typography,        \* ExtractionSessionModel.chosen_typography (JSON, {} = NULL)
    studio_progress,          \* ExtractionSessionModel.studio_progress (JSON, {} = NULL)
    comparison_results,       \* rows of comparison_results, in insertion order
    style_rules,              \* rows of style_rules, in insertion order
    requests,                 \* rule requests in flight: what each read before it writes
    last_op                   \* the last request served and what it answered

vars == <<phase, comparison_count, confidence_score, established_preferences,
          chosen_colors, chosen_typography, studio_progress,
          comparison_results, style_rules, requests, last_op>>

Null == "null"

(***************************************************************************)
(* Bounds of the model.                                                    *)
(***************************************************************************)
MaxLog == 5

\* The log bound, the number of concurrent requests and the number of stated
\* rules of the rule flow.
MaxRuleLog == 1

\* The log bound of the analysis flow.
MaxAnswerLog == 4

MaxRequests == 2

MaxStated == 1

RequestIds == 1..MaxRequests

(***************************************************************************)
(* Fixed tables of the program.                                            *)
(***************************************************************************)
\* palette_service.COLOR_PALETTES: the palettes the fixed comparison pairs use.
COLOR_PALETTES ==
    [default |->
        [name |-> "default", primary |-> "#1a365d", secondary |-> "#115e59",
         accent |-> "#d97706", accentSoft |-> "#f87171", background |-> "#faf5f0",
         category |-> "professional"],
     violet |->
        [name |-> "violet", primary |-> "#5b21b6", secondary |-> "#6b21a8",
         accent |-> "#fbbf24", accentSoft |-> "#fcd34d", background |-> "#faf5ff",
         category |-> "creative"],
     rose |->
        [name |-> "rose", primary |-> "#881337", secondary |-> "#9f1239",
         accent |-> "#fbbf24", accentSoft |-> "#fcd34d", background |-> "#fff1f2",
         category |-> "warm"],
     ocean |->
        [name |-> "ocean", primary |-> "#0c4a6e", secondary |-> "#0e7490",
         accent |-> "#f59e0b", accentSoft |-> "#fb923c", background |-> "#f0f9ff",
         category |-> "cool"],
     forest |->
        [name |-> "forest", primary |-> "#14532d", secondary |-> "#166534",
         accent |-> "#ea580c", accentSoft |-> "#fb7185", background |-> "#f7fee7",
         category |-> "natural"],
     slate |->
        [name |-> "slate", primary |-> "#1e293b", secondary |-> "#334155",
         accent |-> "#0ea5e9", accentSoft |-> "#38bdf8", background |-> "#f8fafc",
         category |-> "neutral"],
     teal |->
        [name |-> "teal", primary |-> "#134e4a", secondary |-> "#115e59",
         accent |-> "#f97316", accentSoft |-> "#fb923c", background |-> "#f0fdfa",
         category |-> "vibrant"],
     dusk |->
        [name |-> "dusk", primary |-> "#081f3f", secondary |-> "#15465b",
         accent |-> "#d97706", accentSoft |-> "#eba714", background |-> "#faf5f0",
         category |-> "professional"],
     cobalt |->
        [name |-> "cobalt", primary |-> "#1e40af", secondary |-> "#2563eb",
         accent |-> "#f59e0b", accentSoft |-> "#fbbf24", background |-> "#eff6ff",
         category |-> "vibrant"],
     mint |->
        [name |-> "mint", primary |-> "#047857", secondary |-> "#059669",
         accent |-> "#06b6d4", accentSoft |-> "#22d3ee", background |-> "#ecfdf5",
         category |-> "cool"]]

\* palette_service.FONT_PAIRINGS: the pairings the fixed comparison pairs use.
FONT_PAIRINGS ==
    [modern_clean |->
        [name |-> "modern-clean", heading |-> "Inter", body |-> "Inter",
         style |-> "modern-clean", category |-> "professional",
         description |-> "Clean, modern sans-serif for tech and startups"],
     classic_editorial |->
        [name |-> "classic-editorial", heading |-> "Playfair Display", body |-> "Lora",
         style |-> "classic-editorial", category |-> "classic",
         description |-> "Elegant editorial style for magazines and luxury"],
     swiss_minimal |->
        [name |-> "swiss-minimal", heading |-> "Montserrat", body |-> "Roboto",
         style |-> "swiss-minimal", category |-> "professional",
         description |-> "Swiss-inspired minimal typography"],
     friendly_rounded |->
        [name |-> "friendly-rounded", heading |-> "Nunito", body |-> "Nunito",
         style |-> "friendly-rounded", category |-> "playful",
         description |-> "Friendly, approachable rounded sans-serif"],
     bold_statement |->
        [name |-> "bold-statement", heading |-> "Oswald", body |-> "Source Sans Pro",
         style |-> "bold-statement", category |-> "bold",
         description |-> "Strong, impactful headings for marketing"],
     elegant_contrast |->
        [name |-> "elegant-contrast", heading |-> "Playfair Display", body |-> "Source Sans Pro",
         style |-> "elegant-contrast", category |-> "professional",
         description |-> "Elegant contrast between display and body"],
     editorial_modern |->
        [name |-> "editorial-modern", heading |-> "DM Serif Display", body |-> "DM Sans",
         style |-> "editorial-modern", category |-> "professional",
         description |-> "Modern editorial with cohesive type family"],
     geometric_modern |->
        [name |-> "geometric-modern", heading |-> "Poppins", body |-> "Open Sans",
         style |-> "geometric-modern", category |-> "professional",
         description |-> "Geometric headings with friendly body text"],
     tech_forward |->
        [name |-> "tech-forward", heading |-> "Space Grotesk", body |-> "Inter",
         style |-> "tech-forward", category |-> "professional",
         description |-> "Modern tech aesthetic with geometric details"],
     traditional_serif |->
        [name |-> "traditional-serif", heading |-> "Merriweather", body |-> "Merriweather",
         style |-> "traditional-serif", category |-> "classic",
         description |-> "Traditional, readable serif for long-form content"]]

\* What generate_territory_mapping_pair returns for comparison_id 1..8 (the
\* generator seeds random with comparison_id * 1000, so the pair depends on
\* the id alone).  A style map is an insertion-ordered dict: a sequence of
\* <<property, value>>.
SeededTerritoryPairs ==
    <<<<<<<<"border_radius", "16">>, <<"padding_x", "12">>,
        <<"padding_y", "8">>, <<"font_weight", "400">>,
        <<"font_size", "18">>, <<"text_transform", "none">>,
        <<"shadow", "none">>, <<"background_style", "outline">>,
        <<"transition", "none">>>>,
      <<<<"border_radius", "4">>, <<"padding_x", "32">>,
        <<"padding_y", "16">>, <<"font_weight", "700">>,
        <<"font_size", "12">>, <<"text_transform", "uppercase">>,
        <<"shadow", "lg">>, <<"background_style", "solid">>,
        <<"transition", "smooth">>>>>>,
      <<<<<<"border_radius", "0">>, <<"border_width", "1">>,
        <<"border_color", "gray-300">>, <<"padding_x", "12">>,
        <<"padding_y", "10">>, <<"font_size", "14">>,
        <<"label_position", "inline">>, <<"focus_ring", "thick">>,
        <<"background", "white">>>>,
      <<<<"border_radius", "12">>, <<"border_width", "2">>,
        <<"border_color", "gray-500">>, <<"padding_x", "20">>,
        <<"padding_y", "14">>, <<"font_size", "16">>,
        <<"label_position", "above">>, <<"focus_ring", "none">>,
        <<"background", "transparent">>>>>>,
      <<<<<<"border_radius", "0">>, <<"shadow", "none">>,
        <<"border", "none">>, <<"padding", "16">>,
        <<"background", "white">>, <<"hover_effect", "border">>>>,
      <<<<"border_radius", "16">>, <<"shadow", "xl">>,
        <<"border", "prominent">>, <<"padding", "32">>,
        <<"background", "gray-100">>, <<"hover_effect", "none">>>>>>,
      <<<<<<"heading_weight", "500">>, <<"heading_size_scale", "1.5">>,
        <<"body_line_height", "1.4">>, <<"letter_spacing", "-0.02">>,
        <<"font_family", "system">>, <<"paragraph_spacing", "2.0">>>>,
      <<<<"heading_weight", "800">>, <<"heading_size_scale", "1.125">>,
        <<"body_line_height", "1.75">>, <<"letter_spacing", "0.05">>,
        <<"font_family", "mono">>, <<"paragraph_spacing", "1.0">>>>>>,
      <<<<<<"style", "horizontal">>, <<"item_padding_x", "12">>,
        <<"item_padding_y", "12">>, <<"active_indicator", "bold">>,
        <<"hover_effect", "underline">>, <<"separator", "space">>>>,
      <<<<"style", "sidebar">>, <<"item_padding_x", "24">>,
        <<"item_padding_y", "8">>,
        <<"active_indicator", "underline">>,
        <<"hover_effect", "color">>, <<"separator", "none">>>>>>,
      <<<<<<"layout", "grid">>, <<"label_style", "above">>,
        <<"spacing", "32">>, <<"error_style", "inline">>,
        <<"required_indicator", "asterisk">>,
        <<"help_text_position", "below">>>>,
      <<<<"layout", "stacked">>, <<"label_style", "floating">>,
        <<"spacing", "16">>, <<"error_style", "border">>,
        <<"required_indicator", "none">>,
        <<"help_text_position", "tooltip">>>>>>,
      <<<<<<"type", "toast">>, <<"position", "top-right">>,
        <<"style", "minimal">>, <<"icon", "none">>,
        <<"duration", "3000">>, <<"animation", "none">>>>,
      <<<<"type", "banner">>, <<"position", "bottom-center">>,
        <<"style", "filled">>, <<"icon", "top">>,
        <<"duration", "persistent">>, <<"animation", "bounce">>>>>>,
      <<<<<<"size", "sm">>, <<"border_radius", "0">>, <<"overlay", "light">>,
        <<"animation", "none">>, <<"close_button", "icon">>,
        <<"padding", "16">>, <<"header_style", "simple">>>>,
      <<<<"size", "full">>, <<"border_radius", "16">>,
        <<"overlay", "dark">>, <<"animation", "slide">>,
        <<"close_button", "both">>, <<"padding", "32">>,
        <<"header_style", "background">>>>>>>>

\* The same for comparison_id 9..30, the ids of a session that goes on
\* beyond the eight component types up to the threshold of 30.
SeededLatePairs ==
    <<<<<<<<"border_radius", "4">>, <<"padding_x", "32">>,
        <<"padding_y", "16">>, <<"font_weight", "400">>,
        <<"font_size", "12">>, <<"text_transform", "uppercase">>,
        <<"shadow", "none">>, <<"background_style", "solid">>,
        <<"transition", "none">>>>,
      <<<<"border_radius", "9999">>, <<"padding_x", "12">>,
        <<"padding_y", "8">>, <<"font_weight", "700">>,
        <<"font_size", "18">>, <<"text_transform", "none">>,
        <<"shadow", "lg">>, <<"background_style", "outline">>,
        <<"transition", "smooth">>>>>>,
      <<<<<<"border_radius", "12">>, <<"border_width", "1">>,
        <<"border_color", "gray-300">>, <<"padding_x", "12">>,
        <<"padding_y", "10">>, <<"font_size", "14">>,
        <<"label_position", "above">>, <<"focus_ring", "none">>,
        <<"background", "white">>>>,
      <<<<"border_radius", "0">>, <<"border_width", "2">>,
        <<"border_color", "gray-500">>, <<"padding_x", "20">>,
        <<"padding_y", "14">>, <<"font_size", "16">>,
        <<"label_position", "inline">>, <<"focus_ring", "thick">>,
        <<"background", "transparent">>>>>>,
      <<<<<<"border_radius", "16">>, <<"shadow", "none">>,
        <<"border", "none">>, <<"padding", "16">>,
        <<"background", "gray-100">>, <<"hover_effect", "none">>>>,
      <<<<"border_radius", "0">>, <<"shadow", "xl">>,
        <<"border", "prominent">>, <<"padding", "32">>,
        <<"background", "white">>, <<"hover_effect", "border">>>>>>,
      <<<<<<"heading_weight", "800">>, <<"heading_size_scale", "1.125">>,
        <<"body_line_height", "1.4">>, <<"letter_spacing", "-0.02">>,
        <<"font_family", "system">>, <<"paragraph_spacing", "2.0">>>>,
      <<<<"heading_weight", "500">>, <<"heading_size_scale", "1.5">>,
        <<"body_line_height", "1.75">>, <<"letter_spacing", "0.05">>,
        <<"font_family", "mono">>, <<"paragraph_spacing", "1.0">>>>>>,
      <<<<<<"style", "horizontal">>, <<"item_padding_x", "12">>,
        <<"item_padding_y", "8">>, <<"active_indicator", "underline">>,
        <<"hover_effect", "underline">>, <<"separator", "none">>>>,
      <<<<"style", "sidebar">>, <<"item_padding_x", "24">>,
        <<"item_padding_y", "12">>, <<"active_indicator", "bold">>,
        <<"hover_effect", "color">>, <<"separator", "space">>>>>>,
      <<<<<<"layout", "grid">>, <<"label_style", "above">>,
        <<"spacing", "16">>, <<"error_style", "inline">>,
        <<"required_indicator", "asterisk">>,
        <<"help_text_position", "below">>>>,
      <<<<"layout", "stacked">>, <<"label_style", "floating">>,
        <<"spacing", "32">>, <<"error_style", "border">>,
        <<"required_indicator", "none">>,
        <<"help_text_position", "tooltip">>>>>>,
      <<<<<<"type", "toast">>, <<"position", "bottom-center">>,
        <<"style", "filled">>, <<"icon", "none">>,
        <<"duration", "3000">>, <<"animation", "bounce">>>>,
      <<<<"type", "banner">>, <<"position", "top-right">>,
        <<"style", "minimal">>, <<"icon", "top">>,
        <<"duration", "persistent">>, <<"animation", "none">>>>>>,
      <<<<<<"size", "sm">>, <<"border_radius", "0">>,
        <<"overlay", "dark">>, <<"animation", "none">>,
        <<"close_button", "icon">>, <<"padding", "16">>,
        <<"header_style", "background">>>>,
      <<<<"size", "full">>, <<"border_radius", "16">>,
        <<"overlay", "light">>, <<"animation", "slide">>,
        <<"close_button", "both">>, <<"padding", "32">>,
        <<"header_style", "simple">>>>>>,
      <<<<<<"border_radius", "4">>, <<"padding_x", "32">>,
        <<"padding_y", "16">>, <<"font_weight", "700">>,
        <<"font_size", "18">>, <<"text_transform", "uppercase">>,
        <<"shadow", "lg">>, <<"background_style", "outline">>,
        <<"transition", "none">>>>,
      <<<<"border_radius", "9999">>, <<"padding_x", "12">>,
        <<"padding_y", "8">>, <<"font_weight", "400">>,
        <<"font_size", "12">>, <<"text_transform", "none">>,
        <<"shadow", "none">>, <<"background_style", "solid">>,
        <<"transition", "smooth">>>>>>,
      <<<<<<"border_radius", "0">>, <<"border_width", "2">>,
        <<"border_color", "gray-300">>, <<"padding_x", "20">>,
        <<"padding_y", "10">>, <<"font_size", "14">>,
        <<"label_position", "inline">>, <<"focus_ring", "none">>,
        <<"background", "white">>>>,
      <<<<"border_radius", "12">>, <<"border_width", "1">>,
        <<"border_color", "gray-500">>, <<"padding_x", "12">>,
        <<"padding_y", "14">>, <<"font_size", "16">>,
        <<"label_position", "above">>, <<"focus_ring", "thick">>,
        <<"background", "transparent">>>>>>,
      <<<<<<"border_radius", "16">>, <<"shadow", "xl">>,
        <<"border", "prominent">>, <<"padding", "16">>,
        <<"background", "gray-100">>, <<"hover_effect", "border">>>>,
      <<<<"border_radius", "0">>, <<"shadow", "none">>,
        <<"border", "none">>, <<"padding", "32">>,
        <<"background", "white">>, <<"hover_effect", "none">>>>>>,
      <<<<<<"heading_weight", "800">>, <<"heading_size_scale", "1.125">>,
        <<"body_line_height", "1.75">>, <<"letter_spacing", "-0.02">>,
        <<"font_family", "system">>, <<"paragraph_spacing", "1.0">>>>,
      <<<<"heading_weight", "500">>, <<"heading_size_scale", "1.5">>,
        <<"body_line_height", "1.4">>, <<"letter_spacing", "0.05">>,
        <<"font_family", "mono">>, <<"paragraph_spacing", "2.0">>>>>>,
      <<<<<<"style", "horizontal">>, <<"item_padding_x", "12">>,
        <<"item_padding_y", "8">>, <<"active_indicator", "bold">>,
        <<"hover_effect", "color">>, <<"separator", "none">>>>,
      <<<<"style", "sidebar">>, <<"item_padding_x", "24">>,
        <<"item_padding_y", "12">>,
        <<"active_indicator", "underline">>,
        <<"hover_effect", "underline">>, <<"separator", "space">>>>>>,
      <<<<<<"layout", "stacked">>, <<"label_style", "above">>,
        <<"spacing", "16">>, <<"error_style", "border">>,
        <<"required_indicator", "asterisk">>,
        <<"help_text_position", "below">>>>,
      <<<<"layout", "grid">>, <<"label_style", "floating">>,
        <<"spacing", "32">>, <<"error_style", "inline">>,
        <<"required_indicator", "none">>,
        <<"help_text_position", "tooltip">>>>>>,
      <<<<<<"type", "toast">>, <<"position", "bottom-center">>,
        <<"style", "minimal">>, <<"icon", "top">>,
        <<"duration", "3000">>, <<"animation", "none">>>>,
      <<<<"type", "banner">>, <<"position", "top-right">>,
        <<"style", "filled">>, <<"icon", "none">>,
        <<"duration", "persistent">>, <<"animation", "bounce">>>>>>,
      <<<<<<"size", "sm">>, <<"border_radius", "0">>,
        <<"overlay", "light">>, <<"animation", "none">>,
        <<"close_button", "both">>, <<"padding", "32">>,
        <<"header_style", "simple">>>>,
      <<<<"size", "full">>, <<"border_radius", "16">>,
        <<"overlay", "dark">>, <<"animation", "slide">>,
        <<"close_button", "icon">>, <<"padding", "16">>,
        <<"header_style", "background">>>>>>,
      <<<<<<"border_radius", "9999">>, <<"padding_x", "12">>,
        <<"padding_y", "16">>, <<"font_weight", "400">>,
        <<"font_size", "12">>, <<"text_transform", "uppercase">>,
        <<"shadow", "lg">>, <<"background_style", "outline">>,
        <<"transition", "none">>>>,
      <<<<"border_radius", "4">>, <<"padding_x", "32">>,
        <<"padding_y", "8">>, <<"font_weight", "700">>,
        <<"font_size", "18">>, <<"text_transform", "none">>,
        <<"shadow", "none">>, <<"background_style", "solid">>,
        <<"transition", "smooth">>>>>>,
      <<<<<<"border_radius", "0">>, <<"border_width", "1">>,
        <<"border_color", "gray-300">>, <<"padding_x", "20">>,
        <<"padding_y", "14">>, <<"font_size", "14">>,
        <<"label_position", "inline">>, <<"focus_ring", "thick">>,
        <<"background", "white">>>>,
      <<<<"border_radius", "12">>, <<"border_width", "2">>,
        <<"border_color", "gray-500">>, <<"padding_x", "12">>,
        <<"padding_y", "10">>, <<"font_size", "16">>,
        <<"label_position", "above">>, <<"focus_ring", "none">>,
        <<"background", "transparent">>>>>>,
      <<<<<<"border_radius", "16">>, <<"shadow", "none">>,
        <<"border", "none">>, <<"padding", "16">>,
        <<"background", "white">>, <<"hover_effect", "none">>>>,
      <<<<"border_radius", "0">>, <<"shadow", "xl">>,
        <<"border", "prominent">>, <<"padding", "32">>,
        <<"background", "gray-100">>, <<"hover_effect", "border">>>>>>,
      <<<<<<"heading_weight", "500">>, <<"heading_size_scale", "1.125">>,
        <<"body_line_height", "1.75">>, <<"letter_spacing", "-0.02">>,
        <<"font_family", "system">>, <<"paragraph_spacing", "2.0">>>>,
      <<<<"heading_weight", "800">>, <<"heading_size_scale", "1.5">>,
        <<"body_line_height", "1.4">>, <<"letter_spacing", "0.05">>,
        <<"font_family", "mono">>, <<"paragraph_spacing", "1.0">>>>>>,
      <<<<<<"style", "horizontal">>, <<"item_padding_x", "12">>,
        <<"item_padding_y", "12">>,
        <<"active_indicator", "underline">>,
        <<"hover_effect", "color">>, <<"separator", "none">>>>,
      <<<<"style", "sidebar">>, <<"item_padding_x", "24">>,
        <<"item_padding_y", "8">>, <<"active_indicator", "bold">>,
        <<"hover_effect", "underline">>, <<"separator", "space">>>>>>,
      <<<<<<"layout", "stacked">>, <<"label_style", "floating">>,
        <<"spacing", "16">>, <<"error_style", "inline">>,
        <<"required_indicator", "asterisk">>,
        <<"help_text_position", "below">>>>,
      <<<<"layout", "grid">>, <<"label_style", "above">>,
        <<"spacing", "32">>, <<"error_style", "border">>,
        <<"required_indicator", "none">>,
        <<"help_text_position", "tooltip">>>>>>>>

(***************************************************************************)
(* Exact rationals standing for the analyzer's floats.                     *)
(***************************************************************************)
Rat(n, d) == [num |-> n, den |-> d]

RatLeq(x, y) == x.num * y.den <= y.num * x.den

RatEq(x, y) == x.num * y.den = y.num * x.den

RatMax(x, y) == IF RatLeq(x, y) THEN y ELSE x

RatMin(x, y) == IF RatLeq(x, y) THEN x ELSE y

(***************************************************************************)
(* pattern_analyzer.py                                                     *)
(***************************************************************************)
\* The "property=value" keys of one style map: f"{prop}={value}" for each
\* item of the dict (a dict is a sequence of <<key, value>>, keys distinct).
StyleKeys(styles) == {styles[i] : i \in DOMAIN styles}

\* prop in styles
StyleHas(styles, prop) == \E i \in DOMAIN styles : styles[i][1] = prop

\* styles.get(prop): the value, or Null when the key is absent.
StyleGet(styles, prop) ==
    IF StyleHas(styles, prop)
    THEN (CHOOSE kv \in StyleKeys(styles) : kv[1] = prop)[2]
    ELSE Null

\* The votes one sub-question answer casts (lines 47-69), as a bag of
\* "property=value" keys: kind is "chosen" or "rejected".
ResponseVote(result, response, kind) ==
    LET prop    == response.property
        choice  == response.choice
        value_a == StyleGet(result.option_a_styles, prop)
        value_b == StyleGet(result.option_b_styles, prop)
    IN  IF prop = "" \/ choice = "none" THEN EmptyBag
        ELSE IF choice = "a" /\ value_a # Null
             THEN IF kind = "chosen" THEN SetToBag({<<prop, value_a>>})
                  ELSE IF value_b # Null THEN SetToBag({<<prop, value_b>>})
                  ELSE EmptyBag
        ELSE IF choice = "b" /\ value_b # Null
             THEN IF kind = "chosen" THEN SetToBag({<<prop, value_b>>})
                  ELSE IF value_a # Null THEN SetToBag({<<prop, value_a>>})
                  ELSE EmptyBag
        ELSE EmptyBag

RECURSIVE ResponseVotes(_, _, _, _)
ResponseVotes(result, responses, n, kind) ==
    IF n = 0 THEN EmptyBag
    ELSE ResponseVotes(result, responses, n - 1, kind)
         (+) ResponseVote(result, responses[n], kind)

\* The votes one comparison record casts (lines 34-90): the answers when the
\* dict carries question_responses, the legacy choice otherwise.
RecordVotes(result, kind) ==
    IF result.question_responses # <<>>
    THEN ResponseVotes(result, result.question_responses,
                       Len(result.question_responses), kind)
    ELSE IF result.choice = "none" THEN EmptyBag
    ELSE LET chosen_styles   == IF result.choice = "a" THEN result.option_a_styles
                                ELSE result.option_b_styles
             rejected_styles == IF result.choice = "a" THEN result.option_b_styles
                                ELSE result.option_a_styles
         IN  SetToBag(StyleKeys(IF kind = "chosen" THEN chosen_styles
                                ELSE rejected_styles))

\* property_votes after the first n records: key -> number of votes of kind.
RECURSIVE property_votes(_, _, _)
property_votes(comparison_results_, n, kind) ==
    IF n = 0 THEN EmptyBag
    ELSE property_votes(comparison_results_, n - 1, kind)
         (+) RecordVotes(comparison_results_[n], kind)

\* The raw score (chosen - rejected)/total of line 97, before it is
\* normalised to [0,1].
KeyScoreRaw(chosen, rejected) ==
    Rat(chosen - rejected, chosen + rejected)

\* One confidence score (lines 95-99): ((chosen - rejected)/total + 1) / 2.
KeyScore(chosen, rejected) ==
    Rat((chosen - rejected) + (chosen + rejected), 2 * (chosen + rejected))

\* analyze_territory_mapping: key -> score, for the keys with total > 0.
analyze_territory_mapping(comparison_results_) ==
    LET n        == Len(comparison_results_)
        chosen   == property_votes(comparison_results_, n, "chosen")
        rejected == property_votes(comparison_results_, n, "rejected")
        voted    == {k \in BagToSet(chosen) \cup BagToSet(rejected) :
                        CopiesIn(k, chosen) + CopiesIn(k, rejected) > 0}
    IN  [k \in voted |-> KeyScore(CopiesIn(k, chosen), CopiesIn(k, rejected))]

\* identify_high_signal_properties: the keys at or beyond the threshold
\* (threshold given in hundredths).
identify_high_signal_properties(confidence_scores, threshold) ==
    {k \in DOMAIN confidence_scores :
        \/ RatLeq(Rat(threshold, 100), confidence_scores[k])
        \/ RatLeq(confidence_scores[k], Rat(100 - threshold, 100))}

\* identify_uncertain_properties: property names with a score in [0.4, 0.6].
identify_uncertain_properties(confidence_scores) ==
    {k[1] : k \in {kk \in DOMAIN confidence_scores :
                     /\ RatLeq(Rat(40, 100), confidence_scores[kk])
                     /\ RatLeq(confidence_scores[kk], Rat(60, 100))}}

NumProperties == 10

\* The final clamp of calculate_session_confidence (line 168).
ClampUnit(x) == RatMax(Rat(0, 1), RatMin(Rat(1, 1), x))

\* calculate_session_confidence (lines 145-168).
calculate_session_confidence(comparison_results_) ==
    IF comparison_results_ = <<>> THEN Rat(0, 1)
    ELSE LET confidence_scores == analyze_territory_mapping(comparison_results_)
             high_signal == identify_high_signal_properties(confidence_scores, 65)
             uncertain   == identify_uncertain_properties(confidence_scores)
             high_signal_properties == {k[1] : k \in high_signal}
             uncertain_count == Cardinality(uncertain \ high_signal_properties)
             \* score - penalty = h/N - (u/N) * 0.3 = (10h - 3u) / (10N)
         IN  ClampUnit(Rat(10 * Cardinality(high_signal_properties) - 3 * uncertain_count,
                           10 * NumProperties))

\* get_property_to_test (lines 195-227), as the set of the properties it can
\* return: untested_uncertain[0], uncertain[0] and untested[0] are the first
\* items of lists made from sets of strings, and the order of such a list
\* follows the hash seed of the process.
get_property_to_test(comparison_results_, tested_properties) ==
    LET confidence_scores  == analyze_territory_mapping(comparison_results_)
        uncertain          == identify_uncertain_properties(confidence_scores)
        untested_uncertain == {p \in uncertain : p \notin tested_properties}
        all_props          == {k[1] : k \in DOMAIN confidence_scores}
        untested           == {p \in all_props : p \notin tested_properties}
    IN  IF untested_uncertain # {} THEN untested_uncertain
        ELSE IF uncertain # {} THEN uncertain
        ELSE IF untested # {} THEN untested
        ELSE {"border_radius"}

(***************************************************************************)
(* palette_service.py / variation_service.py: the comparison generator.    *)
(***************************************************************************)
ColorStyles(p) ==
    <<<<"primary", p.primary>>, <<"secondary", p.secondary>>,
      <<"accent", p.accent>>, <<"accentSoft", p.accentSoft>>,
      <<"background", p.background>>, <<"category", p.category>>>>

FontStyles(f) ==
    <<<<"heading", f.heading>>, <<"body", f.body>>, <<"style", f.style>>,
      <<"category", f.category>>, <<"description", f.description>>>>

AllPalettes == {COLOR_PALETTES[n] : n \in DOMAIN COLOR_PALETTES}

AllFontPairings == {FONT_PAIRINGS[n] : n \in DOMAIN FONT_PAIRINGS}

\* get_palette_comparison_pair: fixed pairs for the first five comparisons,
\* a shuffle (any two distinct palettes) afterwards.
get_palette_comparison_pair(count) ==
    IF count = 0 THEN {<<COLOR_PALETTES.default, COLOR_PALETTES.violet>>}
    ELSE IF count = 1 THEN {<<COLOR_PALETTES.rose, COLOR_PALETTES.ocean>>}
    ELSE IF count = 2 THEN {<<COLOR_PALETTES.forest, COLOR_PALETTES.slate>>}
    ELSE IF count = 3 THEN {<<COLOR_PALETTES.teal, COLOR_PALETTES.dusk>>}
    ELSE IF count = 4 THEN {<<COLOR_PALETTES.cobalt, COLOR_PALETTES.mint>>}
    ELSE {<<a, b>> : a \in AllPalettes, b \in AllPalettes} \ {<<a, a>> : a \in AllPalettes}

get_typography_comparison_pair(count) ==
    IF count = 0 THEN {<<FONT_PAIRINGS.modern_clean, FONT_PAIRINGS.classic_editorial>>}
    ELSE IF count = 1 THEN {<<FONT_PAIRINGS.swiss_minimal, FONT_PAIRINGS.friendly_rounded>>}
    ELSE IF count = 2 THEN {<<FONT_PAIRINGS.bold_statement, FONT_PAIRINGS.elegant_contrast>>}
    ELSE IF count = 3 THEN {<<FONT_PAIRINGS.editorial_modern, FONT_PAIRINGS.geometric_modern>>}
    ELSE IF count = 4 THEN {<<FONT_PAIRINGS.tech_forward, FONT_PAIRINGS.traditional_serif>>}
    ELSE {<<a, b>> : a \in AllFontPairings, b \in AllFontPairings}
         \ {<<a, a>> : a \in AllFontPairings}

generate_color_comparison(count) ==
    {[component_type |-> "color_palette", phase |-> "color_exploration",
      option_a |-> ColorStyles(pr[1]), option_b |-> ColorStyles(pr[2])]
     : pr \in get_palette_comparison_pair(count)}

generate_typography_comparison(count) ==
    {[component_type |-> "font_pair", phase |-> "typography_exploration",
      option_a |-> FontStyles(pr[1]), option_b |-> FontStyles(pr[2])]
     : pr \in get_typography_comparison_pair(count)}

\* variation_service.COMPONENT_TYPES (the keys of COMPONENT_PROPERTIES).
VARIATION_COMPONENT_TYPES ==
    <<"button", "input", "card", "typography", "navigation", "form",
      "feedback", "modal">>

get_next_component_type(count) ==
    VARIATION_COMPONENT_TYPES[(count % Len(VARIATION_COMPONENT_TYPES)) + 1]

\* generate_territory_mapping_pair: the pair is a function of comparison_id
\* alone (random.seed(comparison_id * 1000)); SeededTerritoryPairs tabulates
\* it for the comparison ids the model reaches.
generate_territory_mapping_pair(comparison_id) ==
    IF comparison_id \in DOMAIN SeededTerritoryPairs
    THEN SeededTerritoryPairs[comparison_id]
    ELSE SeededLatePairs[comparison_id - 8]

\* generate_comparison without base_styles / property_to_test, as
\* submit_comparison_choice calls it.
generate_comparison(session_phase, count) ==
    IF session_phase = "color_exploration" THEN generate_color_comparison(count)
    ELSE IF session_phase = "typography_exploration"
         THEN generate_typography_comparison(count)
    ELSE {[component_type |-> get_next_component_type(count),
           phase |-> session_phase,
           option_a |-> generate_territory_mapping_pair(count + 1)[1],
           option_b |-> generate_territory_mapping_pair(count + 1)[2]]}

\* The transition test with identify_high_signal_properties' default
\* threshold 0.65 instead of the 0.6 the code passes.
should_transition_at_default_threshold(count, comparison_results_) ==
    IF count < 10 THEN FALSE
    ELSE IF count >= 15 THEN TRUE
    ELSE Cardinality({k[1] : k \in identify_high_signal_properties(
                          analyze_territory_mapping(comparison_results_), 65)}) >= 5

\* should_transition_to_dimension_isolation (pattern_analyzer.py).
should_transition_to_dimension_isolation(count, comparison_results_) ==
    IF count < 10 THEN FALSE
    ELSE IF count >= 15 THEN TRUE
    ELSE Cardinality({k[1] : k \in identify_high_signal_properties(
                          analyze_territory_mapping(comparison_results_), 60)}) >= 5

(***************************************************************************)
(* The dicts the routes build from the comparison rows.                    *)
(***************************************************************************)
\* comparison_routes.submit_comparison_choice, lines 335-349.
ResultDictWithResponses(r) ==
    [option_a_styles |-> r.option_a_styles, option_b_styles |-> r.option_b_styles,
     choice |-> r.choice, question_responses |-> r.question_responses]

\* comparison_routes.get_next_comparison lines 77-85 and
\* rule_routes.get_session_rules lines 61-68: no question_responses key, so
\* result.get("question_responses") is None in the analyzer.
ResultDictWithoutResponses(r) ==
    [option_a_styles |-> r.option_a_styles, option_b_styles |-> r.option_b_styles,
     choice |-> r.choice, question_responses |-> <<>>]

SubmitResultsDicts(rows) == [i \in DOMAIN rows |-> ResultDictWithResponses(rows[i])]

NextComparisonResultsDicts(rows) ==
    [i \in DOMAIN rows |-> ResultDictWithoutResponses(rows[i])]

(***************************************************************************)
(* established_preferences: the exploration depths kept under the          *)
(* "_exploration_color" / "_exploration_typography" keys and the           *)
(* property -> value preferences.  (The history and last_selection of the  *)
(* exploration state only feed the option generator and are left out.)     *)
(***************************************************************************)
\* _update_established_preferences (comparison_routes.py lines 420-453).
RECURSIVE UpdatedPreferences(_, _, _)
UpdatedPreferences(established, comparison, answers) ==
    IF answers = <<>> THEN established
    ELSE LET prop   == Head(answers).property
             choice == Head(answers).choice
             next   == IF choice = "a" /\ StyleHas(comparison.option_a, prop)
                       THEN [p \in DOMAIN established \cup {prop} |->
                               IF p = prop THEN StyleGet(comparison.option_a, prop)
                               ELSE established[p]]
                       ELSE IF choice = "b" /\ StyleHas(comparison.option_b, prop)
                       THEN [p \in DOMAIN established \cup {prop} |->
                               IF p = prop THEN StyleGet(comparison.option_b, prop)
                               ELSE established[p]]
                       ELSE established
         IN  UpdatedPreferences(next, comparison, Tail(answers))

(***************************************************************************)
(* Inputs of the requests.                                                 *)
(***************************************************************************)
\* ComparisonChoice bodies: the legacy choices, and one body that carries a
\* sub-question answer disagreeing with its legacy choice.
ComparisonChoices ==
    {[choice |-> "a", answers |-> <<>>],
     [choice |-> "b", answers |-> <<>>],
     [choice |-> "none", answers |-> <<>>]}

\* LockInChoice.chosen_styles: whatever style object the client posts.
LockInStyles == {ColorStyles(COLOR_PALETTES.default)}

\* ExplorationSelection.selected_option for palettes and for typography
\* (the first fallback option of each kind).
PaletteOptions ==
    {<<<<"id", "professional-blue">>, <<"name", "Professional Blue">>,
       <<"category", "professional">>, <<"primary", "#1e3a8a">>,
       <<"secondary", "#0891b2">>, <<"accent", "#f59e0b">>,
       <<"accentSoft", "#fbbf24">>, <<"background", "#f8fafc">>,
       <<"description", "Clean and trustworthy">>>>}

TypographyOptions ==
    {<<<<"id", "modern-clean">>, <<"name", "Modern Clean">>,
       <<"category", "modern">>, <<"heading", "Inter">>, <<"body", "Inter">>>>}

(***************************************************************************)
(* session_routes.py                                                       *)
(***************************************************************************)
\* create_session: the state of a new session.
Init ==
    /\ phase = "color_exploration"
    /\ comparison_count = 0
    /\ confidence_score = Rat(0, 1)
    /\ established_preferences =
           [exploration_color |-> 0, exploration_typography |-> 0, preferences |-> <<>>]
    /\ chosen_colors = {}
    /\ chosen_typography = {}
    /\ studio_progress = {}
    /\ comparison_results = <<>>
    /\ style_rules = <<>>
    /\ requests = [r \in RequestIds |-> [pc |-> "idle"]]
    /\ last_op = [op |-> "create_session"]

(***************************************************************************)
(* comparison_routes.py                                                    *)
(***************************************************************************)
\* A threshold transition that would record option B for "none": the
\* default the code does not take.
ThresholdChoiceStylesNoneAsB(choice, comparison) ==
    IF choice = "a" THEN comparison.option_a ELSE comparison.option_b

\* The palette / font pairing a threshold transition records (lines 361-367,
\* 378-383): option B for "b", option A for "a" and for "none".
ThresholdChoiceStyles(choice, comparison) ==
    IF choice = "b" THEN comparison.option_b ELSE comparison.option_a

\* POST /{session_id}/comparison/{comparison_id}: what the handler writes
\* to the session and to the comparison log.
SubmitComparisonChoiceWrites(choice_data) ==
    /\ choice_data.choice \in {"a", "b", "none"}
    /\ \E comparison \in generate_comparison(phase, comparison_count) :
         LET result == [component_type |-> comparison.component_type,
                        phase |-> phase,
                        option_a_styles |-> comparison.option_a,
                        option_b_styles |-> comparison.option_b,
                        choice |-> choice_data.choice,
                        question_responses |-> choice_data.answers]
             count == comparison_count + 1
             results_dicts == SubmitResultsDicts(comparison_results)
                              \o <<ResultDictWithResponses(result)>>
         IN  /\ comparison_results' = Append(comparison_results, result)
             /\ established_preferences' =
                    IF choice_data.answers # <<>>
                    THEN [established_preferences EXCEPT !.preferences =
                            UpdatedPreferences(@, comparison, choice_data.answers)]
                    ELSE established_preferences
             /\ confidence_score' = calculate_session_confidence(results_dicts)
             /\ IF phase = "color_exploration" /\ count >= 5
                THEN /\ chosen_colors' = {ThresholdChoiceStyles(choice_data.choice, comparison)}
                     /\ phase' = "typography_exploration"
                     /\ comparison_count' = 0
                     /\ UNCHANGED chosen_typography
                ELSE IF phase = "typography_exploration" /\ count >= 5
                THEN /\ chosen_typography' = {ThresholdChoiceStyles(choice_data.choice, comparison)}
                     /\ phase' = "component_studio"
                     /\ comparison_count' = 0
                     /\ UNCHANGED chosen_colors
                ELSE IF /\ phase = "territory_mapping"
                        /\ should_transition_to_dimension_isolation(count, results_dicts)
                THEN /\ phase' = "dimension_isolation"
                     /\ comparison_count' = count
                     /\ UNCHANGED <<chosen_colors, chosen_typography>>
                ELSE IF phase = "dimension_isolation" /\ count >= 30
                THEN /\ phase' = "stated_preferences"
                     /\ comparison_count' = count
                     /\ UNCHANGED <<chosen_colors, chosen_typography>>
                ELSE /\ comparison_count' = count
                     /\ UNCHANGED <<phase, chosen_colors, chosen_typography>>
    /\ UNCHANGED <<studio_progress, style_rules, requests>>

\* POST /{session_id}/comparison/{comparison_id}
submit_comparison_choice(choice_data) ==
    /\ SubmitComparisonChoiceWrites(choice_data)
    /\ last_op' = [op |-> "submit_comparison_choice",
                   choice |-> choice_data.choice]

\* GET /{session_id}/comparison: the only write is the territory_mapping
\* transition check (lines 123-126); the pair presented is the answer.
get_next_comparison ==
    /\ phase # "dimension_isolation"
    /\ \E comparison \in generate_comparison(phase, comparison_count) :
         last_op' = [op |-> "get_next_comparison",
                     option_a |-> comparison.option_a,
                     option_b |-> comparison.option_b]
    /\ phase' = IF /\ phase = "territory_mapping"
                   /\ should_transition_to_dimension_isolation(
                          comparison_count, NextComparisonResultsDicts(comparison_results))
                THEN "dimension_isolation" ELSE phase
    /\ UNCHANGED <<comparison_count, confidence_score, established_preferences,
                   chosen_colors, chosen_typography, studio_progress,
                   comparison_results, style_rules, requests>>

\* A lock-in whose typography step starts the palette over: the write the
\* code does not make.
lock_in_choice_clearing_colors(chosen_styles) ==
    /\ phase \in {"color_exploration", "typography_exploration"}
    /\ IF phase = "color_exploration"
       THEN /\ chosen_colors' = {chosen_styles}
            /\ phase' = "typography_exploration"
            /\ UNCHANGED chosen_typography
       ELSE /\ chosen_typography' = {chosen_styles}
            /\ phase' = "component_studio"
            /\ chosen_colors' = {}
    /\ comparison_count' = 0
    /\ last_op' = [op |-> "lock_in_choice", chosen_styles |-> chosen_styles]
    /\ UNCHANGED <<confidence_score, established_preferences, studio_progress,
                   comparison_results, style_rules, requests>>

\* A lock-in whose typography step would go on to territory_mapping, the
\* phase the comparisons came after in the flow without a studio.
lock_in_choice_to_territory(chosen_styles) ==
    /\ phase \in {"color_exploration", "typography_exploration"}
    /\ IF phase = "color_exploration"
       THEN /\ chosen_colors' = {chosen_styles}
            /\ phase' = "typography_exploration"
            /\ UNCHANGED chosen_typography
       ELSE /\ chosen_typography' = {chosen_styles}
            /\ phase' = "territory_mapping"
            /\ UNCHANGED chosen_colors
    /\ comparison_count' = 0
    /\ last_op' = [op |-> "lock_in_choice", chosen_styles |-> chosen_styles]
    /\ UNCHANGED <<confidence_score, established_preferences, studio_progress,
                   comparison_results, style_rules, requests>>

\* A lock-in that would take every phase other than color_exploration for
\* typography_exploration instead of refusing it.
lock_in_choice_any_phase(chosen_styles) ==
    /\ phase \notin {"color_exploration", "typography_exploration"}
    /\ chosen_typography' = {chosen_styles}
    /\ phase' = "component_studio"
    /\ comparison_count' = 0
    /\ last_op' = [op |-> "lock_in_choice", status |-> 200]
    /\ UNCHANGED <<chosen_colors, confidence_score, established_preferences,
                   studio_progress, comparison_results, style_rules, requests>>

\* POST /{session_id}/lock-in on a session outside the two exploration
\* phases (lines 619-624): HTTP 400 is raised before any write.
lock_in_choice_refused(chosen_styles) ==
    /\ phase \notin {"color_exploration", "typography_exploration"}
    /\ last_op' = [op |-> "lock_in_choice", status |-> 400]
    /\ UNCHANGED <<phase, comparison_count, confidence_score, established_preferences,
                   chosen_colors, chosen_typography, studio_progress,
                   comparison_results, style_rules, requests>>

\* POST /{session_id}/lock-in in the two exploration phases (lines 626-646).
lock_in_choice(chosen_styles) ==
    /\ phase \in {"color_exploration", "typography_exploration"}
    /\ IF phase = "color_exploration"
       THEN /\ chosen_colors' = {chosen_styles}
            /\ phase' = "typography_exploration"
            /\ UNCHANGED chosen_typography
       ELSE /\ chosen_typography' = {chosen_styles}
            /\ phase' = "component_studio"
            /\ UNCHANGED chosen_colors
    /\ comparison_count' = 0
    /\ last_op' = [op |-> "lock_in_choice", chosen_styles |-> chosen_styles]
    /\ UNCHANGED <<confidence_score, established_preferences, studio_progress,
                   comparison_results, style_rules, requests>>

(***************************************************************************)
(* exploration_routes.py                                                   *)
(***************************************************************************)
max_depth == 3

\* The import of exploration_service at module load (lines 21-26); the module
\* is part of the backend, so the import succeeds.
EXPLORATION_SERVICE_AVAILABLE == TRUE

\* POST /{session_id}/explore/palettes/select.  Without lock-in the new depth
\* is committed only when the exploration service is importable (lines
\* 195-224); the lock-in branch leaves comparison_count alone.
select_palette(selected_option, wants_refinement) ==
    /\ phase = "color_exploration"
    /\ LET depth == established_preferences.exploration_color + 1
       IN  IF ~wants_refinement \/ depth >= max_depth
           THEN /\ chosen_colors' = {selected_option}
                /\ phase' = "typography_exploration"
                /\ established_preferences' =
                       [established_preferences EXCEPT !.exploration_color = depth,
                                                       !.exploration_typography = 0]
           ELSE /\ established_preferences' =
                       IF EXPLORATION_SERVICE_AVAILABLE
                       THEN [established_preferences EXCEPT !.exploration_color = depth]
                       ELSE established_preferences
                /\ UNCHANGED <<chosen_colors, phase>>
    /\ last_op' = [op |-> "select_palette", selected_option |-> selected_option,
                   wants_refinement |-> wants_refinement]
    /\ UNCHANGED <<comparison_count, confidence_score, chosen_typography,
                   studio_progress, comparison_results, style_rules, requests>>

\* What select_typography stores (lines 301-306).
TypographySelection(selected_option) ==
    <<<<"heading", StyleGet(selected_option, "heading")>>,
      <<"body", StyleGet(selected_option, "body")>>,
      <<"style", StyleGet(selected_option, "id")>>,
      <<"category", StyleGet(selected_option, "category")>>>>

\* POST /{session_id}/explore/typography/select.
select_typography(selected_option, wants_refinement) ==
    /\ phase = "typography_exploration"
    /\ LET depth == established_preferences.exploration_typography + 1
       IN  IF ~wants_refinement \/ depth >= max_depth
           THEN /\ chosen_typography' = {TypographySelection(selected_option)}
                /\ phase' = "component_studio"
                /\ comparison_count' = 0
                /\ established_preferences' =
                       [established_preferences EXCEPT !.exploration_typography = depth]
           ELSE /\ established_preferences' =
                       IF EXPLORATION_SERVICE_AVAILABLE
                       THEN [established_preferences EXCEPT !.exploration_typography = depth]
                       ELSE established_preferences
                /\ UNCHANGED <<chosen_typography, phase, comparison_count>>
    /\ last_op' = [op |-> "select_typography", selected_option |-> selected_option,
                   wants_refinement |-> wants_refinement]
    /\ UNCHANGED <<confidence_score, chosen_colors, studio_progress,
                   comparison_results, style_rules, requests>>

(***************************************************************************)
(* skill_routes.py                                                         *)
(***************************************************************************)
\* POST /api/sessions/{session_id}/generate-skill: no phase precondition.
generate_skill ==
    /\ phase' = "complete"
    /\ last_op' = [op |-> "generate_skill"]
    /\ UNCHANGED <<comparison_count, confidence_score, established_preferences,
                   chosen_colors, chosen_typography, studio_progress,
                   comparison_results, style_rules, requests>>

(***************************************************************************)
(* component_dimensions.py, component_studio_service.py and                *)
(* component_studio_routes.py.  The studio router is declared with the     *)
(* prefix /api/sessions/{session_id}/studio; main.py (lines 48-57) does    *)
(* not include it, so the studio actions below are the handlers as they    *)
(* are written, for an application that mounts the router.                 *)
(***************************************************************************)
COMPONENT_TYPES ==
    <<"button", "input", "card", "typography", "navigation", "form",
      "modal", "feedback", "table", "badge", "tabs", "toggle">>

CHECKPOINT_GROUPS ==
    <<[id |-> "checkpoint_1", components |-> <<"button", "input", "card", "typography">>],
      [id |-> "checkpoint_2", components |-> <<"navigation", "form", "modal", "feedback">>],
      [id |-> "checkpoint_3", components |-> <<"table", "badge", "tabs", "toggle">>]>>

SeqRange(s) == {s[i] : i \in DOMAIN s}

\* get_checkpoint_for_component: the group a component belongs to (its index).
get_checkpoint_for_component(component_type) ==
    CHOOSE g \in DOMAIN CHECKPOINT_GROUPS :
        component_type \in SeqRange(CHECKPOINT_GROUPS[g].components)

\* is_checkpoint_trigger: the component is the last one of some group.
is_checkpoint_trigger(component_type) ==
    \E g \in DOMAIN CHECKPOINT_GROUPS :
        CHECKPOINT_GROUPS[g].components[Len(CHECKPOINT_GROUPS[g].components)]
            = component_type

(***************************************************************************)
(* component_studio_service.py                                             *)
(***************************************************************************)
\* _load_studio_progress: the stored JSON, or the default when the column
\* is NULL.
load_studio_progress ==
    IF studio_progress = {}
    THEN [completed_components |-> <<>>,
          current_component |-> COMPONENT_TYPES[1],
          current_dimension_index |-> 0,
          checkpoint_approvals |-> <<>>]
    ELSE CHOOSE p \in studio_progress : TRUE

\* The first component of COMPONENT_TYPES not in completed, or Null.
NextUncompleted(completed) ==
    IF \E i \in DOMAIN COMPONENT_TYPES : COMPONENT_TYPES[i] \notin SeqRange(completed)
    THEN COMPONENT_TYPES[CHOOSE i \in DOMAIN COMPONENT_TYPES :
            /\ COMPONENT_TYPES[i] \notin SeqRange(completed)
            /\ \A j \in 1..(i - 1) : COMPONENT_TYPES[j] \in SeqRange(completed)]
    ELSE Null

\* get_studio_progress: the response built from the stored progress.
get_studio_progress ==
    LET progress    == load_studio_progress
        completed   == progress.completed_components
        current     == progress.current_component
        approvals   == progress.checkpoint_approvals
        is_complete == Len(completed) >= Len(COMPONENT_TYPES)
        pending     == {g \in DOMAIN CHECKPOINT_GROUPS :
                          /\ CHECKPOINT_GROUPS[g].id \notin SeqRange(approvals)
                          /\ SeqRange(CHECKPOINT_GROUPS[g].components)
                                \subseteq SeqRange(completed)}
    IN  [current_component |-> IF is_complete THEN Null ELSE current,
         completed_components |-> completed,
         checkpoint_approvals |-> approvals,
         pending_checkpoint |->
            IF ~is_complete /\ current = Null /\ pending # {}
            THEN CHECKPOINT_GROUPS[CHOOSE g \in pending :
                                     \A h \in pending : g <= h].id
            ELSE Null,
         is_complete |-> is_complete]

\* service.lock_component: the progress after locking component_type.
LockedProgress(progress, component_type) ==
    LET completed == IF component_type \in SeqRange(progress.completed_components)
                     THEN progress.completed_components
                     ELSE Append(progress.completed_components, component_type)
        group     == CHECKPOINT_GROUPS[get_checkpoint_for_component(component_type)]
        trigger_checkpoint ==
            IF /\ is_checkpoint_trigger(component_type)
               /\ group.id \notin SeqRange(progress.checkpoint_approvals)
            THEN group.id ELSE Null
        next_component == NextUncompleted(completed)
    IN  IF trigger_checkpoint # Null
        THEN [progress EXCEPT !.completed_components = completed,
                              !.current_component = Null,
                              !.current_dimension_index = 0]
        ELSE IF next_component # Null
        THEN [progress EXCEPT !.completed_components = completed,
                              !.current_component = next_component,
                              !.current_dimension_index = 0]
        ELSE [progress EXCEPT !.completed_components = completed,
                              !.current_component = Null]

\* POST .../studio/component/lock (400 when there is no current component).
lock_component ==
    /\ get_studio_progress.current_component # Null
    /\ studio_progress' =
           {LockedProgress(load_studio_progress, get_studio_progress.current_component)}
    /\ last_op' = [op |-> "lock_component",
                   component_type |-> get_studio_progress.current_component]
    /\ UNCHANGED <<phase, comparison_count, confidence_score, established_preferences,
                   chosen_colors, chosen_typography, comparison_results,
                   style_rules, requests>>

\* service.approve_checkpoint: the progress after approving checkpoint_id.
ApprovedProgress(progress, checkpoint_id) ==
    LET approvals == IF checkpoint_id \in SeqRange(progress.checkpoint_approvals)
                     THEN progress.checkpoint_approvals
                     ELSE Append(progress.checkpoint_approvals, checkpoint_id)
        next_component == NextUncompleted(progress.completed_components)
    IN  IF next_component # Null
        THEN [progress EXCEPT !.checkpoint_approvals = approvals,
                              !.current_component = next_component,
                              !.current_dimension_index = 0]
        ELSE [progress EXCEPT !.checkpoint_approvals = approvals,
                              !.current_component = Null]

\* POST .../studio/checkpoint/{checkpoint_id}/approve: the route moves the
\* session to stated_preferences when the service reports is_studio_complete.
approve_checkpoint(checkpoint_id) ==
    /\ studio_progress' = {ApprovedProgress(load_studio_progress, checkpoint_id)}
    /\ phase' = IF NextUncompleted(load_studio_progress.completed_components) = Null
                THEN "stated_preferences" ELSE phase
    /\ last_op' = [op |-> "approve_checkpoint", checkpoint_id |-> checkpoint_id]
    /\ UNCHANGED <<comparison_count, confidence_score, established_preferences,
                   chosen_colors, chosen_typography, comparison_results,
                   style_rules, requests>>

\* POST .../studio/component/{component_type}/go-back (400 for an unknown type).
go_back_to_component(component_type) ==
    /\ component_type \in SeqRange(COMPONENT_TYPES)
    /\ studio_progress' = {[load_studio_progress EXCEPT
                               !.current_component = component_type,
                               !.current_dimension_index = 0]}
    /\ last_op' = [op |-> "go_back_to_component", component_type |-> component_type]
    /\ UNCHANGED <<phase, comparison_count, confidence_score, established_preferences,
                   chosen_colors, chosen_typography, comparison_results,
                   style_rules, requests>>

(***************************************************************************)
(* rule_synthesizer.py and pattern_analyzer.aggregate_property_preferences *)
(***************************************************************************)
\* The string itself, where json.dumps gives its JSON text.
json_unquoted(value) == value

\* json.dumps of a str.
json_dumps(value) == "\"" \o value \o "\""

\* f"{rule_counter:03d}"
Pad3(n) ==
    IF n < 10 THEN "00" \o ToString(n)
    ELSE IF n < 100 THEN "0" \o ToString(n)
    ELSE ToString(n)

\* The items of the sequence s that are not in acc, appended to acc in order
\* (the first assignment to a dict key fixes its place in the dict).
RECURSIVE AppendNew(_, _, _)
AppendNew(acc, s, i) ==
    IF i > Len(s) THEN acc
    ELSE LET added == IF \E j \in DOMAIN acc : acc[j] = s[i] THEN acc
                      ELSE Append(acc, s[i])
         IN  IF Len(added) = 0 THEN acc ELSE AppendNew(added, s, i + 1)

\* The keys one answer touches, in the order the analyzer touches them.
ResponseKeyOrder(result, response) ==
    LET prop    == response.property
        choice  == response.choice
        value_a == StyleGet(result.option_a_styles, prop)
        value_b == StyleGet(result.option_b_styles, prop)
    IN  IF prop = "" \/ choice = "none" THEN <<>>
        ELSE IF choice = "a" /\ value_a # Null
             THEN <<<<prop, value_a>>>>
                  \o (IF value_b # Null THEN <<<<prop, value_b>>>> ELSE <<>>)
        ELSE IF choice = "b" /\ value_b # Null
             THEN <<<<prop, value_b>>>>
                  \o (IF value_a # Null THEN <<<<prop, value_a>>>> ELSE <<>>)
        ELSE <<>>

RECURSIVE ResponsesKeyOrder(_, _, _)
ResponsesKeyOrder(result, responses, n) ==
    IF n = 0 THEN <<>>
    ELSE ResponsesKeyOrder(result, responses, n - 1)
         \o ResponseKeyOrder(result, responses[n])

\* The keys one record touches, in order: the chosen map's items and then
\* the rejected map's (legacy mode), or the answers' keys.
RecordKeyOrder(result) ==
    IF result.question_responses # <<>>
    THEN ResponsesKeyOrder(result, result.question_responses,
                           Len(result.question_responses))
    ELSE IF result.choice = "none" THEN <<>>
    ELSE IF result.choice = "a"
         THEN result.option_a_styles \o result.option_b_styles
         ELSE result.option_b_styles \o result.option_a_styles

\* The keys of property_votes (and so of confidence_scores) in dict order.
RECURSIVE VoteKeyOrder(_, _)
VoteKeyOrder(comparison_results_, n) ==
    IF n = 0 THEN <<>>
    ELSE AppendNew(VoteKeyOrder(comparison_results_, n - 1),
                   RecordKeyOrder(comparison_results_[n]), 1)

RatAdd(x, y) == Rat(x.num * y.den + y.num * x.den, x.den * y.den)

\* abs(s - 0.5)
Deviation(s) ==
    Rat(IF 2 * s.num >= s.den THEN 2 * s.num - s.den ELSE s.den - 2 * s.num,
        2 * s.den)

RECURSIVE SumDeviation(_, _, _)
SumDeviation(keys, scores, n) ==
    IF n = 0 THEN Rat(0, 1)
    ELSE RatAdd(SumDeviation(keys, scores, n - 1), Deviation(scores[keys[n]]))

\* aggregate_property_preferences: one entry per property, in dict order,
\* with the preferred values (score >= 0.65), the rejected values (score <=
\* 0.35) and confidence = min(1.0, 2 * mean(abs(score - 0.5))).
aggregate_property_preferences(comparison_results_) ==
    LET confidence_scores == analyze_territory_mapping(comparison_results_)
        keys  == VoteKeyOrder(comparison_results_, Len(comparison_results_))
        props == AppendNew(<<>>, [i \in DOMAIN keys |-> keys[i][1]], 1)
        Values(ks) == [i \in DOMAIN ks |-> ks[i][2]]
    IN  [p \in DOMAIN props |->
            LET of_prop == SelectSeq(keys, LAMBDA k : k[1] = props[p])
                total   == SumDeviation(of_prop, confidence_scores, Len(of_prop))
            IN  [property |-> props[p],
                 preferred_values |->
                    Values(SelectSeq(of_prop,
                        LAMBDA k : RatLeq(Rat(65, 100), confidence_scores[k]))),
                 rejected_values |->
                    Values(SelectSeq(of_prop,
                        LAMBDA k : /\ ~RatLeq(Rat(65, 100), confidence_scores[k])
                                   /\ RatLeq(confidence_scores[k], Rat(35, 100)))),
                 confidence |->
                    RatMin(Rat(1, 1), Rat(2 * total.num, total.den * Len(of_prop)))]]

\* _infer_component_type: property_component_map.get(property_name); the
\* properties mapped to None and the unknown ones both give Null.
property_component_map ==
    <<<<"font_weight", "typography">>, <<"font_size", "typography">>,
      <<"text_transform", "button">>, <<"background_style", "button">>,
      <<"transition", "button">>, <<"border_width", "input">>,
      <<"border_color", "input">>, <<"label_position", "input">>,
      <<"focus_ring", "input">>, <<"hover_effect", "card">>,
      <<"heading_weight", "typography">>, <<"heading_size_scale", "typography">>,
      <<"body_line_height", "typography">>, <<"letter_spacing", "typography">>,
      <<"font_family", "typography">>, <<"paragraph_spacing", "typography">>,
      <<"style", "navigation">>, <<"item_padding_x", "navigation">>,
      <<"item_padding_y", "navigation">>, <<"active_indicator", "navigation">>,
      <<"separator", "navigation">>, <<"layout", "form">>,
      <<"label_style", "form">>, <<"spacing", "form">>,
      <<"error_style", "form">>, <<"required_indicator", "form">>,
      <<"help_text_position", "form">>, <<"type", "feedback">>,
      <<"position", "feedback">>, <<"icon", "feedback">>,
      <<"duration", "feedback">>, <<"size", "modal">>,
      <<"overlay", "modal">>, <<"close_button", "modal">>,
      <<"header_style", "modal">>>>

infer_component_type(property_name) == StyleGet(property_component_map, property_name)

\* component_type[:3] if component_type else "gen"
RulePrefix(component_type) ==
    IF component_type = Null THEN "gen"
    ELSE StyleGet(<<<<"typography", "typ">>, <<"button", "but">>, <<"input", "inp">>,
                    <<"card", "car">>, <<"navigation", "nav">>, <<"form", "for">>,
                    <<"feedback", "fee">>, <<"modal", "mod">>>>, component_type)

\* _generate_rule_message for the operators synthesis uses.
generate_rule_message(property_name, operator, value, component_type) ==
    LET component_str == IF component_type = Null THEN "" ELSE component_type \o " "
    IN  IF operator = "=" THEN "Prefer " \o component_str \o property_name \o " of " \o value
        ELSE IF operator = "!="
             THEN "Avoid " \o component_str \o property_name \o " of " \o value
        ELSE component_str \o property_name \o " " \o operator \o " " \o value

min_confidence == 60

\* One synthesized rule dict (lines 54-65, 70-81, 109-120).
SynthesizedRule(rule_counter, property_name, operator, value, confidence) ==
    LET component_type == infer_component_type(property_name)
    IN  [rule_id |-> RulePrefix(component_type) \o "-" \o Pad3(rule_counter),
         component_type |-> component_type,
         property |-> property_name,
         operator |-> operator,
         value |-> json_dumps(value),
         severity |-> "warning",
         confidence |-> confidence,
         source |-> "extracted",
         message |-> generate_rule_message(property_name, operator, value, component_type),
         is_modified |-> FALSE]

\* The rules of one property with a "!=" rule for every rejected value
\* instead of the first two.
PropertyRulesAllRejected(data, rule_counter) ==
    IF ~RatLeq(Rat(min_confidence, 100), data.confidence) THEN <<>>
    ELSE LET preferred ==
                 IF data.preferred_values # <<>>
                 THEN <<SynthesizedRule(rule_counter + 1, data.property, "=",
                                        data.preferred_values[1], data.confidence)>>
                 ELSE <<>>
         IN  preferred
             \o [i \in DOMAIN data.rejected_values |->
                    SynthesizedRule(rule_counter + Len(preferred) + i, data.property,
                                    "!=", data.rejected_values[i], data.confidence)]

\* The rules of one property (lines 29-121): none below min_confidence, else
\* one "=" rule for the first preferred value and a "!=" rule for each of the
\* first two rejected values, numbered from rule_counter + 1.  No value of
\* the style tables is a dict string, so _decompose_complex_value gives None.
PropertyRules(data, rule_counter) ==
    IF ~RatLeq(Rat(min_confidence, 100), data.confidence) THEN <<>>
    ELSE LET preferred ==
                 IF data.preferred_values # <<>>
                 THEN <<SynthesizedRule(rule_counter + 1, data.property, "=",
                                        data.preferred_values[1], data.confidence)>>
                 ELSE <<>>
             rejected == SubSeq(data.rejected_values, 1,
                                IF Len(data.rejected_values) < 2
                                THEN Len(data.rejected_values) ELSE 2)
         IN  preferred
             \o [i \in DOMAIN rejected |->
                    SynthesizedRule(rule_counter + Len(preferred) + i, data.property,
                                    "!=", rejected[i], data.confidence)]

RECURSIVE SynthesizeFrom(_, _, _)
SynthesizeFrom(preferences, i, rule_counter) ==
    IF i > Len(preferences) THEN <<>>
    ELSE PropertyRules(preferences[i], rule_counter)
         \o SynthesizeFrom(preferences, i + 1,
                           rule_counter + Len(PropertyRules(preferences[i], 0)))

\* synthesize_rules_from_patterns: the rule dicts, in creation order.
synthesize_rules_from_patterns(comparison_results_) ==
    SynthesizeFrom(aggregate_property_preferences(comparison_results_), 1, 0)

\* parse_stated_preference on the statements of RuleStatements: the operator
\* is "!=" when the statement holds never / avoid / no / don't / without, the
\* property and value are those of the first keyword of keyword_rules found
\* in it, the severity is "warning" for "!=" and "info" otherwise.
parse_stated_preference(statement, component) ==
    IF statement = "never use gradients"
    THEN [property |-> "background_style", operator |-> "!=",
          value |-> json_dumps("gradient"), component_type |-> component,
          confidence |-> Rat(1, 1), severity |-> "warning", message |-> statement]
    ELSE IF statement = "always use rounded corners"
    THEN [property |-> "border_radius", operator |-> "=",
          value |-> "8", component_type |-> component,
          confidence |-> Rat(1, 1), severity |-> "info", message |-> statement]
    ELSE [property |-> "custom", operator |-> "=",
          value |-> json_dumps(statement), component_type |-> component,
          confidence |-> Rat(1, 1), severity |-> "info", message |-> statement]

(***************************************************************************)
(* component_dimensions.py                                                 *)
(***************************************************************************)
\* COMPONENT_DIMENSIONS: the keys and labels of the dimensions of "button",
\* the component the dimension choices of DimensionChoices are made for.
COMPONENT_DIMENSIONS ==
    [button |->
        <<[key |-> "border_radius", label |-> "Corner Style"],
          [key |-> "shadow", label |-> "Shadow"],
          [key |-> "padding", label |-> "Padding"],
          [key |-> "font_weight", label |-> "Font Weight"],
          [key |-> "font_size", label |-> "Font Size"],
          [key |-> "text_transform", label |-> "Text Case"],
          [key |-> "border", label |-> "Border"],
          [key |-> "background_style", label |-> "Background Style"],
          [key |-> "hover_effect", label |-> "Hover Effect"]>>]

get_dimensions_for_component(component_type) ==
    IF component_type \in DOMAIN COMPONENT_DIMENSIONS
    THEN COMPONENT_DIMENSIONS[component_type] ELSE <<>>

\* get_component_label, for the components whose label is the capitalized
\* name.
get_component_label(component_type) ==
    StyleGet(<<<<"button", "Button">>, <<"input", "Input">>, <<"card", "Card">>,
               <<"typography", "Typography">>, <<"navigation", "Navigation">>,
               <<"table", "Table">>, <<"badge", "Badge">>, <<"tabs", "Tabs">>>>,
             component_type)

(***************************************************************************)
(* The requests that read the rule table and write it in a later step of   *)
(* their own: the handlers run on a thread pool, each with its own database *)
(* session, and nothing orders one request's query and its commit with      *)
(* respect to another request's.                                           *)
(***************************************************************************)
Idle == [pc |-> "idle"]

\* The index of the first row with the rule id (query(...).first()), or 0.
FirstRuleIndex(rows, rule_id) ==
    IF \E i \in DOMAIN rows : rows[i].rule_id = rule_id
    THEN CHOOSE i \in DOMAIN rows :
            /\ rows[i].rule_id = rule_id
            /\ \A j \in 1..(i - 1) : rows[j].rule_id # rule_id
    ELSE 0

\* StyleRuleModel.id of a new row (default uuid4): a token no row of the
\* table carries, here the least unused number.
NewRowId(rows) ==
    CHOOSE n \in 1..(Len(rows) + 1) :
        /\ \A i \in DOMAIN rows : rows[i].id # n
        /\ \A m \in 1..(n - 1) : \E i \in DOMAIN rows : rows[i].id = m

\* db.add(StyleRuleModel(**rule)) for each rule of a list, in order.
RECURSIVE AddRules(_, _, _)
AddRules(rows, rules, n) ==
    IF n = 0 THEN rows
    ELSE LET before == AddRules(rows, rules, n - 1)
         IN  Append(before, [id |-> NewRowId(before)] @@ rules[n])

(***************************************************************************)
(* The str methods the rule and audit code uses, computed character by     *)
(* character on TLA+ strings.                                              *)
(***************************************************************************)
\* str[m-1:n]: the characters m..n of a string that exist.
Slice(str, m, n) ==
    LET last == IF n > Len(str) THEN Len(str) ELSE n
    IN  IF m < 1 \/ m > last THEN "" ELSE SubSeq(str, m, last)

\* needle in hay
StrContains(needle, hay) ==
    \/ needle = ""
    \/ \E i \in 1..(Len(hay) - Len(needle) + 1) :
          Slice(hay, i, i + Len(needle) - 1) = needle

\* The 1-based position of a character in an alphabet, 0 when absent.
CharIndex(c, alphabet) ==
    IF \E i \in 1..Len(alphabet) : Slice(alphabet, i, i) = c
    THEN CHOOSE i \in 1..Len(alphabet) : Slice(alphabet, i, i) = c
    ELSE 0

RECURSIVE StrLower(_)
\* str.lower() (ASCII letters).
StrLower(str) ==
    IF str = "" THEN ""
    ELSE LET c == Head(str)
             i == CharIndex(c, "ABCDEFGHIJKLMNOPQRSTUVWXYZ")
         IN  (IF i = 0 THEN c ELSE Slice("abcdefghijklmnopqrstuvwxyz", i, i))
             \o StrLower(Tail(str))

RECURSIVE StrReplace(_, _, _)
\* str.replace(old, new) for a one-character old.
StrReplace(str, old, new) ==
    IF str = "" THEN ""
    ELSE (IF Head(str) = old THEN new ELSE Head(str)) \o StrReplace(Tail(str), old, new)

Whitespace == " \t\n\r"

RECURSIVE StrLStrip(_)
StrLStrip(str) ==
    IF str # "" /\ CharIndex(Head(str), Whitespace) # 0 THEN StrLStrip(Tail(str)) ELSE str

RECURSIVE StrRStrip(_)
StrRStrip(str) ==
    IF str # "" /\ CharIndex(Slice(str, Len(str), Len(str)), Whitespace) # 0
    THEN StrRStrip(Slice(str, 1, Len(str) - 1))
    ELSE str

\* str.strip()
StrStrip(str) == StrRStrip(StrLStrip(str))

RECURSIVE StrLStripChar(_, _)
\* str.lstrip(c) for a one-character c.
StrLStripChar(str, c) ==
    IF str # "" /\ Head(str) = c THEN StrLStripChar(Tail(str), c) ELSE str

\* str.split(sep)[0] for a one-character sep.
StrBefore(str, sep) ==
    IF \E i \in 1..Len(str) : Slice(str, i, i) = sep
    THEN LET first == CHOOSE i \in 1..Len(str) :
                          /\ Slice(str, i, i) = sep
                          /\ \A j \in 1..(i - 1) : Slice(str, j, j) # sep
         IN  Slice(str, 1, first - 1)
    ELSE str

RECURSIVE StrSplit(_, _)
\* str.split(sep) for a one-character sep.
StrSplit(str, sep) ==
    LET first == StrBefore(str, sep)
    IN  IF Len(first) = Len(str) THEN <<str>>
        ELSE <<first>> \o StrSplit(Slice(str, Len(first) + 2, Len(str)), sep)

RECURSIVE DigitsLen(_)
\* The length of the longest prefix of decimal digits: what \d+ matches.
DigitsLen(str) ==
    IF str # "" /\ CharIndex(Head(str), "0123456789") # 0
    THEN 1 + DigitsLen(Tail(str)) ELSE 0

RECURSIVE DecimalValue(_)
\* int(str) for a string of decimal digits.
DecimalValue(str) ==
    IF str = "" THEN 0
    ELSE 10 * DecimalValue(Slice(str, 1, Len(str) - 1))
         + CharIndex(Slice(str, Len(str), Len(str)), "0123456789") - 1

\* The value of one hexadecimal digit, -1 for another character.
HexDigit(c) ==
    LET i == CharIndex(c, "0123456789abcdef")
        j == CharIndex(c, "ABCDEF")
    IN  IF i # 0 THEN i - 1 ELSE IF j # 0 THEN j + 9 ELSE -1

RECURSIVE Pow10(_)
Pow10(n) == IF n = 0 THEN 1 ELSE 10 * Pow10(n - 1)

(***************************************************************************)
(* baseline_rules.py                                                       *)
(*                                                                         *)
(* A rule value is held with its Python type: kind is "number", "bool" or  *)
(* "str", text is the value as printed.                                    *)
(***************************************************************************)
BaselineRule(id, component_type, property_name, operator, kind, text) ==
    [id |-> id, component_type |-> component_type, property |-> property_name,
     operator |-> operator, value |-> [kind |-> kind, text |-> text]]

\* ALL_BASELINE_RULES = WCAG_RULES + NIELSEN_RULES
ALL_BASELINE_RULES ==
    <<BaselineRule("wcag-001", Null, "contrast_ratio_text", ">=", "number", "4.5"),
      BaselineRule("wcag-002", Null, "contrast_ratio_large_text", ">=", "number", "3.0"),
      BaselineRule("wcag-003", "button", "touch_target_size", ">=", "number", "44"),
      BaselineRule("wcag-004", Null, "focus_indicator", "!=", "str", "none"),
      BaselineRule("wcag-005", "input", "label_present", "=", "bool", "True"),
      BaselineRule("wcag-006", Null, "color_only_indicator", "=", "bool", "False"),
      BaselineRule("wcag-007", "typography", "line_height", ">=", "number", "1.5"),
      BaselineRule("wcag-008", "typography", "paragraph_spacing", ">=", "number", "2.0"),
      BaselineRule("nielsen-001", Null, "system_status_visibility", "=", "bool", "True"),
      BaselineRule("nielsen-002", Null, "real_world_match", "=", "bool", "True"),
      BaselineRule("nielsen-003", Null, "user_control_freedom", "=", "bool", "True"),
      BaselineRule("nielsen-004", Null, "consistency_standards", "=", "bool", "True"),
      BaselineRule("nielsen-005", "form", "error_prevention", "=", "bool", "True"),
      BaselineRule("nielsen-006", Null, "recognition_over_recall", "=", "bool", "True"),
      BaselineRule("nielsen-007", Null, "flexibility_efficiency", "=", "bool", "True"),
      BaselineRule("nielsen-008", Null, "aesthetic_minimal_design", "=", "bool", "True"),
      BaselineRule("nielsen-009", "feedback", "error_recovery_help", "=", "bool", "True"),
      BaselineRule("nielsen-010", Null, "help_documentation", "=", "bool", "True")>>

\* json.loads of the text json.dumps wrote for a str or a number: a text
\* between double quotes is a str, another one a number.
json_loads(text) ==
    IF Len(text) >= 2 /\ Head(text) = "\"" /\ Slice(text, Len(text), Len(text)) = "\""
    THEN [kind |-> "str", text |-> Slice(text, 2, Len(text) - 1)]
    ELSE [kind |-> "number", text |-> text]

\* float(value): <<the value>> as an exact fraction, or <<>> when float
\* raises ValueError; a str is a float when it is digits with an optional
\* fraction (and optional sign).
float(value) ==
    IF value.kind = "bool" THEN <<[num |-> (IF value.text = "True" THEN 1 ELSE 0), den |-> 1]>>
    ELSE LET stripped == StrStrip(value.text)
             negative == stripped # "" /\ Head(stripped) = "-"
             unsigned == IF stripped # "" /\ Head(stripped) \in {"-", "+"}
                         THEN Tail(stripped) ELSE stripped
             n        == DigitsLen(unsigned)
             dotted   == Slice(unsigned, n + 1, n + 1) = "."
             after    == Slice(unsigned, n + 2, Len(unsigned))
             m        == IF dotted THEN DigitsLen(after) ELSE 0
             whole    == DecimalValue(Slice(unsigned, 1, n)) * Pow10(m)
                         + DecimalValue(Slice(after, 1, m))
         IN  IF n + m > 0 /\ Len(unsigned) = n + (IF dotted THEN 1 ELSE 0) + m
             THEN <<[num |-> (IF negative THEN 0 - whole ELSE whole), den |-> Pow10(m)]>>
             ELSE <<>>

\* user_rule.get("value") == baseline["value"]
ValuesEqual(x, y) ==
    IF x.kind = "str" \/ y.kind = "str" THEN x = y
    ELSE float(x)[1].num * float(y)[1].den = float(y)[1].num * float(x)[1].den

\* check_baseline_conflict: the baseline rules the user rule conflicts with.
check_baseline_conflict(user_rule) ==
    SelectSeq(ALL_BASELINE_RULES,
        LAMBDA baseline :
            /\ baseline.property = user_rule.property
            /\ baseline.component_type = user_rule.component_type
            /\ IF baseline.operator \in {">=", ">"} /\ user_rule.operator \in {"<=", "<", "="}
               THEN /\ float(user_rule.value) # <<>>
                    /\ float(user_rule.value)[1].num * float(baseline.value)[1].den
                           < float(baseline.value)[1].num * float(user_rule.value)[1].den
               ELSE IF baseline.operator = "!=" /\ user_rule.operator = "="
               THEN ValuesEqual(user_rule.value, baseline.value)
               ELSE IF baseline.operator = "=" /\ user_rule.operator = "!="
               THEN ValuesEqual(user_rule.value, baseline.value)
               ELSE FALSE)

\* The dict add_stated_rule hands to check_baseline_conflict (lines 148-153).
UserRule(rule) ==
    [property |-> rule.property, component_type |-> rule.component_type,
     operator |-> rule.operator, value |-> json_loads(rule.value)]

\* [c['id'] for c in conflicts]
ConflictIds(conflicts) == [i \in DOMAIN conflicts |-> conflicts[i].id]

(***************************************************************************)
(* rule_routes.py                                                          *)
(***************************************************************************)
\* get_session_rules lines 61-68: the dicts handed to the synthesizer.
RulesComparisonDicts(rows) == [i \in DOMAIN rows |-> ResultDictWithoutResponses(rows[i])]

\* A request that would synthesize whenever comparison_count > 0, whatever
\* rules the session has.
get_session_rules_query_every_time(r) ==
    /\ requests[r].pc = "idle"
    /\ IF comparison_count > 0
       THEN requests' =
               [requests EXCEPT ![r] =
                   [pc |-> "get_session_rules",
                    comparison_dicts |-> RulesComparisonDicts(comparison_results),
                    new_rules |-> synthesize_rules_from_patterns(
                                      RulesComparisonDicts(comparison_results))]]
       ELSE UNCHANGED requests
    /\ last_op' = [op |-> "get_session_rules", conflicts |-> <<>>]
    /\ UNCHANGED <<phase, comparison_count, confidence_score, established_preferences,
                   chosen_colors, chosen_typography, studio_progress,
                   comparison_results, style_rules>>

\* GET /{session_id}/rules, up to the synthesis (lines 46-70): when the
\* session has no extracted rule and comparison_count > 0 the request
\* synthesizes rules from the log it read; otherwise it returns the rows.
get_session_rules_query(r) ==
    /\ requests[r].pc = "idle"
    /\ IF /\ \A i \in DOMAIN style_rules : style_rules[i].source # "extracted"
          /\ comparison_count > 0
       THEN requests' =
               [requests EXCEPT ![r] =
                   [pc |-> "get_session_rules",
                    comparison_dicts |-> RulesComparisonDicts(comparison_results),
                    new_rules |-> synthesize_rules_from_patterns(
                                      RulesComparisonDicts(comparison_results))]]
       ELSE UNCHANGED requests
    /\ last_op' = [op |-> "get_session_rules", conflicts |-> <<>>]
    /\ UNCHANGED <<phase, comparison_count, confidence_score, established_preferences,
                   chosen_colors, chosen_typography, studio_progress,
                   comparison_results, style_rules>>

\* GET /{session_id}/rules, lines 71-74: the synthesized rules are added
\* and committed.  The response (lines 82-98) lists the rows as stored: it
\* names no baseline rule.
get_session_rules_commit(r) ==
    /\ requests[r].pc = "get_session_rules"
    /\ style_rules' = AddRules(style_rules, requests[r].new_rules,
                                Len(requests[r].new_rules))
    /\ requests' = [requests EXCEPT ![r] = Idle]
    /\ last_op' = [op |-> "get_session_rules", conflicts |-> <<>>]
    /\ UNCHANGED <<phase, comparison_count, confidence_score, established_preferences,
                   chosen_colors, chosen_typography, studio_progress, comparison_results>>

\* POST /{session_id}/rules.  uuid4().hex[:6] is a fresh token: here the
\* number of the row.
add_stated_rule(rule_data) ==
    LET parsed == parse_stated_preference(rule_data.statement, rule_data.component)
        uuid   == ToString(NewRowId(style_rules))
    IN  /\ style_rules' = Append(style_rules,
               [id |-> NewRowId(style_rules),
                rule_id |-> RulePrefix(parsed.component_type) \o "-stated-" \o uuid,
                component_type |-> parsed.component_type,
                property |-> parsed.property,
                operator |-> parsed.operator,
                value |-> parsed.value,
                severity |-> parsed.severity,
                confidence |-> parsed.confidence,
                source |-> "stated",
                message |-> parsed.message,
                is_modified |-> FALSE])
        /\ last_op' = [op |-> "add_stated_rule",
                       conflicts |-> ConflictIds(check_baseline_conflict(UserRule(parsed)))]
        /\ UNCHANGED <<phase, comparison_count, confidence_score, established_preferences,
                       chosen_colors, chosen_typography, studio_progress,
                       comparison_results, requests>>

\* An edit that would leave is_modified as it was.
UpdatedRuleKeepingFlag(rule, update_data) ==
    [rule EXCEPT !.value = IF update_data.value # Null
                           THEN json_dumps(update_data.value) ELSE @,
                 !.severity = IF update_data.severity # Null
                              THEN update_data.severity ELSE @,
                 !.message = IF update_data.message # Null
                             THEN update_data.message ELSE @]

\* The row update_rule leaves (lines 222-230).
UpdatedRule(rule, update_data) ==
    [rule EXCEPT !.value = IF update_data.value # Null
                           THEN json_dumps(update_data.value) ELSE @,
                 !.severity = IF update_data.severity # Null
                              THEN update_data.severity ELSE @,
                 !.message = IF update_data.message # Null
                             THEN update_data.message ELSE @,
                 !.is_modified = TRUE]

\* PATCH /{session_id}/rules/{rule_id} (404 when no row has the rule id).
update_rule(rule_id, update_data) ==
    /\ FirstRuleIndex(style_rules, rule_id) # 0
    /\ style_rules' = [style_rules EXCEPT ![FirstRuleIndex(style_rules, rule_id)] =
                          UpdatedRule(@, update_data)]
    /\ last_op' = [op |-> "update_rule"]
    /\ UNCHANGED <<phase, comparison_count, confidence_score, established_preferences,
                   chosen_colors, chosen_typography, studio_progress,
                   comparison_results, requests>>

\* DELETE /{session_id}/rules/{rule_id} (404 when no row has the rule id):
\* the first row with the rule id is removed.
delete_rule(rule_id) ==
    /\ FirstRuleIndex(style_rules, rule_id) # 0
    /\ style_rules' = [i \in 1..(Len(style_rules) - 1) |->
                          IF i < FirstRuleIndex(style_rules, rule_id)
                          THEN style_rules[i] ELSE style_rules[i + 1]]
    /\ last_op' = [op |-> "delete_rule"]
    /\ UNCHANGED <<phase, comparison_count, confidence_score, established_preferences,
                   chosen_colors, chosen_typography, studio_progress,
                   comparison_results, requests>>

(***************************************************************************)
(* component_studio_service.submit_dimension_choice                        *)
(***************************************************************************)
\* The progress submit_dimension_choice saves (lines 196-207): the dimension
\* index moves on when the dimension submitted is the current one.
DimensionProgress(progress, component_type, dimension) ==
    LET dimensions == get_dimensions_for_component(component_type)
    IN  IF \E i \in DOMAIN dimensions :
              /\ dimensions[i].key = dimension
              /\ i - 1 = progress.current_dimension_index
        THEN [progress EXCEPT !.current_dimension_index = @ + 1]
        ELSE progress

\* _find_dimension_def(...)["label"], or the dimension key itself.
DimensionLabel(component_type, dimension) ==
    LET dimensions == get_dimensions_for_component(component_type)
    IN  IF \E i \in DOMAIN dimensions : dimensions[i].key = dimension
        THEN dimensions[CHOOSE i \in DOMAIN dimensions : dimensions[i].key = dimension].label
        ELSE dimension

\* POST .../studio/component/{component_type}/dimension, up to the point
\* where the rule row is looked up (lines 131-175).
submit_dimension_choice_query(r, component_type, choice) ==
    /\ requests[r].pc = "idle"
    /\ component_type \in SeqRange(COMPONENT_TYPES)
    /\ LET final_value == IF choice.fine_tuned_value # Null
                          THEN choice.fine_tuned_value ELSE choice.selected_value
           rule_id == "studio-" \o component_type \o "-" \o choice.dimension
       IN  requests' =
              [requests EXCEPT ![r] =
                  [pc |-> "submit_dimension_choice",
                   rule_id |-> rule_id,
                   existing_rule |-> FirstRuleIndex(style_rules, rule_id),
                   component_type |-> component_type,
                   css_property |-> choice.css_property,
                   final_value |-> final_value,
                   message |-> get_component_label(component_type) \o " "
                               \o DimensionLabel(component_type, choice.dimension)
                               \o ": " \o final_value,
                   saves_progress |->
                       DimensionProgress(load_studio_progress, component_type,
                                         choice.dimension) # load_studio_progress,
                   progress |-> DimensionProgress(load_studio_progress, component_type,
                                                  choice.dimension)]]
    /\ last_op' = [op |-> "submit_dimension_choice"]
    /\ UNCHANGED <<phase, comparison_count, confidence_score, established_preferences,
                   chosen_colors, chosen_typography, studio_progress,
                   comparison_results, style_rules>>

\* The rest of the request (lines 177-209 and the route's commit): the row
\* found is updated, or a new row is inserted; the progress is saved when
\* the dimension index moved.
submit_dimension_choice_commit(r) ==
    /\ requests[r].pc = "submit_dimension_choice"
    /\ LET req == requests[r]
       IN  /\ style_rules' =
                 IF req.existing_rule # 0
                 THEN [style_rules EXCEPT ![req.existing_rule] =
                          [@ EXCEPT !.value = json_dumps(req.final_value),
                                    !.message = req.message,
                                    !.confidence = Rat(1, 1)]]
                 ELSE Append(style_rules,
                         [id |-> NewRowId(style_rules),
                          rule_id |-> req.rule_id,
                          component_type |-> req.component_type,
                          property |-> req.css_property,
                          operator |-> "=",
                          value |-> json_dumps(req.final_value),
                          severity |-> "warning",
                          confidence |-> Rat(1, 1),
                          source |-> "extracted",
                          message |-> req.message,
                          is_modified |-> FALSE])
           /\ studio_progress' =
                 IF req.saves_progress
                 THEN {req.progress} ELSE studio_progress
    /\ requests' = [requests EXCEPT ![r] = Idle]
    /\ last_op' = [op |-> "submit_dimension_choice"]
    /\ UNCHANGED <<phase, comparison_count, confidence_score, established_preferences,
                   chosen_colors, chosen_typography, comparison_results>>

CheckpointIds == {"checkpoint_1", "checkpoint_2", "checkpoint_3"}

GoBackTargets == {"navigation"}

(***************************************************************************)
(* The exploration flow: comparisons, lock-in and palette / typography     *)
(* selection on a new session.                                             *)
(***************************************************************************)
SubmitComparison ==
    /\ Len(comparison_results) < MaxLog
    /\ \E choice_data \in ComparisonChoices : submit_comparison_choice(choice_data)

LockIn == \E chosen_styles \in LockInStyles : lock_in_choice(chosen_styles)

SelectPalette ==
    \E o \in PaletteOptions, w \in BOOLEAN : select_palette(o, w)

SelectTypography ==
    \E o \in TypographyOptions, w \in BOOLEAN : select_typography(o, w)

Next ==
    \/ SubmitComparison
    \/ LockIn
    \/ SelectPalette
    \/ SelectTypography

Spec == Init /\ [][Next]_vars

(***************************************************************************)
(* The component studio flow.                                              *)
(***************************************************************************)
ApproveCheckpoint == \E checkpoint_id \in CheckpointIds : approve_checkpoint(checkpoint_id)

GoBack == \E component_type \in GoBackTargets : go_back_to_component(component_type)

NextStudio ==
    \/ LockIn
    \/ lock_component
    \/ ApproveCheckpoint
    \/ GoBack
    \/ generate_skill

SpecStudio == Init /\ [][NextStudio]_vars

(***************************************************************************)
(* The rule flow: comparisons with and without sub-question answers, and   *)
(* the requests that create and edit rule rows.                            *)
(***************************************************************************)
RuleFlowChoices ==
    {[choice |-> "a", answers |-> <<>>],
     [choice |-> "a",
      answers |-> <<[category |-> "color", property |-> "primary", choice |-> "b"]>>]}

DimensionChoices ==
    {[dimension |-> "border_radius", selected_option_id |-> "rounded",
      selected_value |-> "8px", css_property |-> "borderRadius",
      fine_tuned_value |-> Null],
     [dimension |-> "border_radius", selected_option_id |-> "pill",
      selected_value |-> "9999px", css_property |-> "borderRadius",
      fine_tuned_value |-> Null]}

RuleStatements == {[statement |-> "never use gradients", component |-> Null]}

UpdateTargets == {"gen-001", "studio-button-border_radius"}

UpdateBodies ==
    {[value |-> "4px", severity |-> Null, message |-> Null],
     [value |-> Null, severity |-> "error", message |-> "Keep the corners square"]}

SubmitRuleFlowComparison ==
    /\ Len(comparison_results) < MaxRuleLog
    /\ \E choice_data \in RuleFlowChoices : submit_comparison_choice(choice_data)

GetSessionRulesQuery == \E r \in RequestIds : get_session_rules_query(r)

GetSessionRulesCommit == \E r \in RequestIds : get_session_rules_commit(r)

SubmitDimensionChoiceQuery ==
    \E r \in RequestIds, choice \in DimensionChoices :
        submit_dimension_choice_query(r, "button", choice)

SubmitDimensionChoiceCommit == \E r \in RequestIds : submit_dimension_choice_commit(r)

AddStatedRule ==
    /\ Cardinality({i \in DOMAIN style_rules : style_rules[i].source = "stated"}) < MaxStated
    /\ \E rule_data \in RuleStatements : add_stated_rule(rule_data)

UpdateRule ==
    \E rule_id \in UpdateTargets, update_data \in UpdateBodies :
        update_rule(rule_id, update_data)

NextRules ==
    \/ SubmitRuleFlowComparison
    \/ GetSessionRulesQuery
    \/ GetSessionRulesCommit
    \/ SubmitDimensionChoiceQuery
    \/ SubmitDimensionChoiceCommit
    \/ AddStatedRule
    \/ UpdateRule

SpecRules == Init /\ [][NextRules]_vars

(***************************************************************************)
(* The rule editing flow: the same requests served one at a time (a single *)
(* worker, request slot 1), with the user's edits, deletions and stated    *)
(* rules.                                                                  *)
(***************************************************************************)
NoRequestInFlight == \A q \in RequestIds : requests[q].pc = "idle"

SerialGetSessionRulesQuery == NoRequestInFlight /\ get_session_rules_query(1)

SerialSubmitDimensionChoiceQuery ==
    /\ NoRequestInFlight
    /\ \E choice \in DimensionChoices : submit_dimension_choice_query(1, "button", choice)

SerialAddStatedRule == NoRequestInFlight /\ AddStatedRule

SerialUpdateRule == NoRequestInFlight /\ UpdateRule

SerialDeleteRule ==
    /\ NoRequestInFlight
    /\ \E rule_id \in UpdateTargets : delete_rule(rule_id)

NextEdits ==
    \/ SubmitRuleFlowComparison
    \/ SerialGetSessionRulesQuery
    \/ GetSessionRulesCommit
    \/ SerialSubmitDimensionChoiceQuery
    \/ SubmitDimensionChoiceCommit
    \/ SerialAddStatedRule
    \/ SerialUpdateRule
    \/ SerialDeleteRule

SpecEdits == Init /\ [][NextEdits]_vars

(***************************************************************************)
(* The analysis flow: logs that mix records with and without sub-question  *)
(* answers, in the exploration phases and in component_studio.             *)
(***************************************************************************)
AnswerChoices ==
    {[choice |-> "a", answers |-> <<>>],
     [choice |-> "b", answers |-> <<>>],
     [choice |-> "none", answers |-> <<>>],
     [choice |-> "a",
      answers |-> <<[category |-> "color", property |-> "primary", choice |-> "b"],
                    [category |-> "spacing", property |-> "padding_x", choice |-> "a"]>>]}

SubmitAnsweredComparison ==
    /\ Len(comparison_results) < MaxAnswerLog
    /\ \E choice_data \in AnswerChoices : submit_comparison_choice(choice_data)

NextAnalysis ==
    \/ SubmitAnsweredComparison
    \/ LockIn
    \/ get_next_comparison

SpecAnalysis == Init /\ [][NextAnalysis]_vars

(***************************************************************************)
(* Properties of the exploration flow.                                     *)
(***************************************************************************)
\* The number of log records submitted while the session was in phase p.
InPhaseCount(rows, p) == Cardinality({i \in DOMAIN rows : rows[i].phase = p})

\* C4 (as stated): immediately after every operation that changes the phase,
\* comparison_count is 0.
C4_CountResetOnPhaseChange ==
    [][phase' # phase => comparison_count' = 0]_vars

\* C5 (as stated): a comparison submission moves the session out of
\* color_exploration or typography_exploration only when at least 5
\* comparisons were submitted while the session was in that phase.
C5_ThresholdNeedsFiveInPhase ==
    [][(/\ Len(comparison_results') = Len(comparison_results) + 1
        /\ phase \in {"color_exploration", "typography_exploration"}
        /\ phase' # phase)
       => InPhaseCount(comparison_results', phase) >= 5]_vars

\* The record the step appended to the log.
NewRecord == comparison_results'[Len(comparison_results')]

\* C6 (as stated): every step from color_exploration to typography_exploration
\* sets chosen_colors to the style map of the option the user chose (a
\* submission: the option named by its choice, a or b; lock-in and palette
\* selection: the posted option); every step from typography_exploration to
\* component_studio sets chosen_typography likewise; chosen_colors is set
\* whenever phase is typography_exploration or component_studio.
C6_ChosenOptionRecorded ==
    [][/\ (phase = "color_exploration" /\ phase' = "typography_exploration")
          => \/ /\ last_op'.op = "submit_comparison_choice"
                /\ \/ NewRecord.choice = "a" /\ chosen_colors' = {NewRecord.option_a_styles}
                   \/ NewRecord.choice = "b" /\ chosen_colors' = {NewRecord.option_b_styles}
             \/ /\ last_op'.op = "lock_in_choice"
                /\ chosen_colors' = {last_op'.chosen_styles}
             \/ /\ last_op'.op = "select_palette"
                /\ chosen_colors' = {last_op'.selected_option}
       /\ (phase = "typography_exploration" /\ phase' = "component_studio")
          => \/ /\ last_op'.op = "submit_comparison_choice"
                /\ \/ NewRecord.choice = "a"
                      /\ chosen_typography' = {NewRecord.option_a_styles}
                   \/ NewRecord.choice = "b"
                      /\ chosen_typography' = {NewRecord.option_b_styles}
             \/ /\ last_op'.op = "lock_in_choice"
                /\ chosen_typography' = {last_op'.chosen_styles}
             \/ /\ last_op'.op = "select_typography"
                /\ chosen_typography' = {last_op'.selected_option}
       /\ phase' \in {"typography_exploration", "component_studio"}
          => chosen_colors' # {}]_vars

\* C6 (amended): as C6, except that a threshold submission whose choice is
\* "none" records option A, and select_typography records the projection
\* {heading, body, style: id, category} of the posted option.
C6_ChosenOptionRecordedAmended ==
    [][/\ (phase = "color_exploration" /\ phase' = "typography_exploration")
          => \/ /\ last_op'.op = "submit_comparison_choice"
                /\ \/ NewRecord.choice \in {"a", "none"}
                      /\ chosen_colors' = {NewRecord.option_a_styles}
                   \/ NewRecord.choice = "b" /\ chosen_colors' = {NewRecord.option_b_styles}
             \/ /\ last_op'.op = "lock_in_choice"
                /\ chosen_colors' = {last_op'.chosen_styles}
             \/ /\ last_op'.op = "select_palette"
                /\ chosen_colors' = {last_op'.selected_option}
       /\ (phase = "typography_exploration" /\ phase' = "component_studio")
          => \/ /\ last_op'.op = "submit_comparison_choice"
                /\ \/ NewRecord.choice \in {"a", "none"}
                      /\ chosen_typography' = {NewRecord.option_a_styles}
                   \/ NewRecord.choice = "b"
                      /\ chosen_typography' = {NewRecord.option_b_styles}
             \/ /\ last_op'.op = "lock_in_choice"
                /\ chosen_typography' = {last_op'.chosen_styles}
             \/ /\ last_op'.op = "select_typography"
                /\ \E o \in {last_op'.selected_option} :
                     chosen_typography' =
                        {<<<<"heading", StyleGet(o, "heading")>>,
                           <<"body", StyleGet(o, "body")>>,
                           <<"style", StyleGet(o, "id")>>,
                           <<"category", StyleGet(o, "category")>>>>}
       /\ phase' \in {"typography_exploration", "component_studio"}
          => chosen_colors' # {}]_vars

\* A threshold submission with choice "none" has just moved the session from
\* typography_exploration to component_studio, after a palette was recorded.
C6_Witness ==
    /\ phase = "component_studio"
    /\ last_op.op = "submit_comparison_choice"
    /\ last_op.choice = "none"
    /\ comparison_results[Len(comparison_results)].phase = "typography_exploration"
    /\ chosen_typography = {comparison_results[Len(comparison_results)].option_a_styles}
    /\ chosen_colors # {}

\* C10: every score of analyze_territory_mapping over the session's log lies
\* in [0,1] and equals chosen/(chosen+rejected) for its key, a key without
\* votes has no score, and the stored confidence_score lies in [0,1].
C10_ScoresInUnitInterval ==
    LET results_dicts == SubmitResultsDicts(comparison_results)
        n        == Len(results_dicts)
        scores   == analyze_territory_mapping(results_dicts)
        chosen   == property_votes(results_dicts, n, "chosen")
        rejected == property_votes(results_dicts, n, "rejected")
        keys     == UNION {StyleKeys(results_dicts[i].option_a_styles)
                           \cup StyleKeys(results_dicts[i].option_b_styles)
                           : i \in DOMAIN results_dicts}
    IN  /\ \A k \in DOMAIN scores :
             /\ 0 <= scores[k].num
             /\ scores[k].num <= scores[k].den
             /\ scores[k].den > 0
             /\ scores[k].num * (CopiesIn(k, chosen) + CopiesIn(k, rejected))
                    = CopiesIn(k, chosen) * scores[k].den
       /\ \A k \in keys :
             CopiesIn(k, chosen) + CopiesIn(k, rejected) = 0 => k \notin DOMAIN scores
       /\ 0 <= confidence_score.num
       /\ confidence_score.num <= confidence_score.den
       /\ confidence_score.den > 0

\* A log with an unanswered ("none") record, a record voting by its answers,
\* a key voted for by two records, and a session confidence the clamp has
\* cut to 1.
C10_Witness ==
    /\ \E i \in DOMAIN comparison_results : comparison_results[i].choice = "none"
    /\ \E i \in DOMAIN comparison_results : comparison_results[i].question_responses # <<>>
    /\ \E k \in DOMAIN analyze_territory_mapping(SubmitResultsDicts(comparison_results)) :
         CopiesIn(k, property_votes(SubmitResultsDicts(comparison_results),
                                    Len(comparison_results), "chosen"))
         + CopiesIn(k, property_votes(SubmitResultsDicts(comparison_results),
                                      Len(comparison_results), "rejected")) >= 2
    /\ confidence_score = Rat(1, 1)

(***************************************************************************)
(* Properties of the component studio flow.                                *)
(***************************************************************************)
\* C2 (as stated): the phase changes from component_studio to
\* stated_preferences only in a state where checkpoint_1, checkpoint_2 and
\* checkpoint_3 are all in checkpoint_approvals.
C2_AllCheckpointsApproved ==
    [][(phase = "component_studio" /\ phase' = "stated_preferences")
       => /\ studio_progress' # {}
          /\ \A p \in studio_progress' :
                CheckpointIds \subseteq SeqRange(p.checkpoint_approvals)]_vars

\* C3 (as stated): once the phase is complete, no operation changes it.
C3_CompleteIsTerminal ==
    [][phase = "complete" => phase' = "complete"]_vars

(***************************************************************************)
(* Properties of the rule table.                                           *)
(***************************************************************************)
\* C7 (as stated): no two StyleRule rows of the session have the same
\* rule_id.
C7_NoDuplicateRuleIds ==
    \A i \in DOMAIN style_rules : \A j \in DOMAIN style_rules :
        i # j => style_rules[i].rule_id # style_rules[j].rule_id

\* The step changed the value, severity, message or confidence of the row.
RowEdited(old, new) ==
    \/ old.value # new.value
    \/ old.severity # new.severity
    \/ old.message # new.message
    \/ ~RatEq(old.confidence, new.confidence)

\* C8 (as stated): the value, severity, message and confidence of an
\* existing rule row change only in a step of update_rule, which leaves
\* is_modified true.
C8_OnlyUserEditsMutate ==
    [][\A i \in DOMAIN style_rules : \A j \in DOMAIN style_rules' :
          (style_rules[i].id = style_rules'[j].id
           /\ RowEdited(style_rules[i], style_rules'[j]))
          => /\ last_op'.op = "update_rule"
             /\ style_rules'[j].is_modified]_vars

\* C8 (amended): the value, severity, message and confidence of an existing
\* row change only in a step of update_rule, which leaves is_modified true,
\* or in a step of submit_dimension_choice for the row's own studio rule id,
\* which rewrites value and message, sets confidence to 1 and leaves
\* severity and is_modified as they were; no step changes the rule_id,
\* source, property or operator of a row.
C8_OnlyUserEditsMutateAmended ==
    [][\A i \in DOMAIN style_rules : \A j \in DOMAIN style_rules' :
          style_rules[i].id = style_rules'[j].id
          => /\ style_rules'[j].rule_id = style_rules[i].rule_id
             /\ style_rules'[j].source = style_rules[i].source
             /\ style_rules'[j].property = style_rules[i].property
             /\ style_rules'[j].operator = style_rules[i].operator
             /\ RowEdited(style_rules[i], style_rules'[j])
                => \/ /\ last_op'.op = "update_rule"
                      /\ style_rules'[j].is_modified
                   \/ /\ last_op'.op = "submit_dimension_choice"
                      /\ \E c \in SeqRange(COMPONENT_TYPES), ch \in DimensionChoices :
                           style_rules[i].rule_id = "studio-" \o c \o "-" \o ch.dimension
                      /\ style_rules'[j].severity = style_rules[i].severity
                      /\ style_rules'[j].is_modified = style_rules[i].is_modified
                      /\ style_rules'[j].confidence = Rat(1, 1)]_vars

\* A studio rule the user edited (severity and message) and a later
\* dimension choice rewrote, beside a synthesized rule and a stated rule.
C8_Witness ==
    /\ \E i \in DOMAIN style_rules :
         /\ style_rules[i].rule_id = "studio-button-border_radius"
         /\ style_rules[i].is_modified
         /\ style_rules[i].severity = "error"
         /\ style_rules[i].message = "Button Corner Style: 9999px"
    /\ \E i \in DOMAIN style_rules : style_rules[i].rule_id = "gen-001"
    /\ \E i \in DOMAIN style_rules : style_rules[i].source = "stated"

\* The votes the claim gives a stored record: its answers' when it carries
\* answers, its legacy choice's otherwise.
ExpectedVotes(row, kind) ==
    IF row.question_responses # <<>>
    THEN ResponseVotes(row, row.question_responses, Len(row.question_responses), kind)
    ELSE RecordVotes(ResultDictWithoutResponses(row), kind)

\* C9 (as stated): in the analysis a get_session_rules request runs, every
\* record of the log votes in exactly one mode, by its answers when it
\* carries answers and by its legacy choice otherwise.
C9_OneVoteModePerRecord ==
    \A r \in RequestIds :
        requests[r].pc = "get_session_rules"
        => \A i \in DOMAIN requests[r].comparison_dicts :
              \A kind \in {"chosen", "rejected"} :
                  RecordVotes(requests[r].comparison_dicts[i], kind)
                      = ExpectedVotes(comparison_results[i], kind)

(***************************************************************************)
(* The transition test of territory_mapping applied to given logs: the     *)
(* log and the count are the inputs, drawn in the initial state.           *)
(***************************************************************************)
\* The length of the logs handed to should_transition_to_dimension_isolation.
MaxHistory == 5

\* Records of one territory_mapping comparison (the button pair of
\* comparison id 1): the legacy choices, and answers on four properties and
\* on a fifth one.
TransitionRecord(choice, answers) ==
    [component_type |-> "button", phase |-> "territory_mapping",
     option_a_styles |-> generate_territory_mapping_pair(1)[1],
     option_b_styles |-> generate_territory_mapping_pair(1)[2],
     choice |-> choice, question_responses |-> answers]

TransitionRecords ==
    {TransitionRecord("a", <<>>), TransitionRecord("b", <<>>),
     TransitionRecord("none", <<>>),
     TransitionRecord("a",
        <<[category |-> "shape", property |-> "border_radius", choice |-> "a"],
          [category |-> "spacing", property |-> "padding_x", choice |-> "a"],
          [category |-> "spacing", property |-> "padding_y", choice |-> "b"],
          [category |-> "typography", property |-> "font_weight", choice |-> "a"]>>),
     TransitionRecord("a",
        <<[category |-> "typography", property |-> "font_size", choice |-> "b"]>>)}

\* The comparison counts tried: below, inside and beyond the 10..14 window.
TransitionCounts == {9, 10, 14, 15}

InitTransition ==
    /\ phase = "territory_mapping"
    /\ comparison_count \in TransitionCounts
    /\ confidence_score = Rat(0, 1)
    /\ established_preferences =
           [exploration_color |-> 0, exploration_typography |-> 0, preferences |-> <<>>]
    /\ chosen_colors = {}
    /\ chosen_typography = {}
    /\ studio_progress = {}
    /\ comparison_results \in UNION {[1..n -> TransitionRecords] : n \in 0..MaxHistory}
    /\ style_rules = <<>>
    /\ requests = [r \in RequestIds |-> [pc |-> "idle"]]
    /\ last_op = [op |-> "create_session"]

\* should_transition_to_dimension_isolation applied to the session's count
\* and log, as submit_comparison_choice applies it (line 391).
ShouldTransition ==
    /\ last_op.op = "create_session"
    /\ last_op' = [op |-> "should_transition_to_dimension_isolation",
                   result |-> should_transition_to_dimension_isolation(
                                  comparison_count,
                                  SubmitResultsDicts(comparison_results))]
    /\ UNCHANGED <<phase, comparison_count, confidence_score, established_preferences,
                   chosen_colors, chosen_typography, studio_progress,
                   comparison_results, style_rules, requests>>

NextTransition == ShouldTransition

SpecTransition == InitTransition /\ [][NextTransition]_vars

\* The property names with some value whose score is >= 0.6 or <= 0.4.
StrongProperties(comparison_results_) ==
    LET scores == analyze_territory_mapping(comparison_results_)
    IN  {k[1] : k \in {kk \in DOMAIN scores :
                          \/ RatLeq(Rat(6, 10), scores[kk])
                          \/ RatLeq(scores[kk], Rat(4, 10))}}

\* C11: should_transition_to_dimension_isolation is false for a count below
\* 10, true for a count of 15 or more, and in between true exactly when at
\* least 5 distinct property names have a value scored >= 0.6 or <= 0.4.
C11_TransitionWindow ==
    last_op.op = "should_transition_to_dimension_isolation"
    => last_op.result =
          IF comparison_count < 10 THEN FALSE
          ELSE IF comparison_count >= 15 THEN TRUE
          ELSE Cardinality(StrongProperties(SubmitResultsDicts(comparison_results))) >= 5

\* Inside the window, a log of three choices of A and two of B: every score
\* is exactly 0.6 or 0.4, and the test answers true.
C11_Witness ==
    /\ last_op.op = "should_transition_to_dimension_isolation"
    /\ comparison_count = 10
    /\ Len(comparison_results) = 5
    /\ \A i \in DOMAIN comparison_results : comparison_results[i].question_responses = <<>>
    /\ Cardinality({i \in DOMAIN comparison_results : comparison_results[i].choice = "a"}) = 3
    /\ Cardinality({i \in DOMAIN comparison_results : comparison_results[i].choice = "b"}) = 2
    /\ last_op.result = TRUE

(***************************************************************************)
(* The dimension_isolation rounds of a session that has just left          *)
(* territory_mapping: GET comparison names the property to test, POST      *)
(* comparison answers it.  last_op keeps, next to the last response, the   *)
(* properties the answered rounds tested: the history of the session that  *)
(* no column stores.                                                       *)
(***************************************************************************)
\* The length of the territory_mapping logs the rounds start from.
MaxIsolationHistory == 2

\* The number of dimension_isolation rounds answered.
MaxIsolationRounds == 2

InitIsolation ==
    /\ phase = "dimension_isolation"
    /\ comparison_count = 10
    /\ confidence_score = Rat(0, 1)
    /\ established_preferences =
           [exploration_color |-> 0, exploration_typography |-> 0, preferences |-> <<>>]
    /\ chosen_colors = {}
    /\ chosen_typography = {}
    /\ studio_progress = {}
    /\ comparison_results \in
           UNION {[1..n -> TransitionRecords] : n \in 0..MaxIsolationHistory}
    /\ style_rules = <<>>
    /\ requests = [r \in RequestIds |-> [pc |-> "idle"]]
    /\ last_op = [op |-> "create_session", tested |-> {}]

\* The style maps of the chosen options, one after the other
\* (pattern_analyzer.py lines 237-248: a record with choice none is
\* skipped, choice a takes option A, any other choice option B).
RECURSIVE ChosenPairs(_, _)
ChosenPairs(results, i) ==
    IF i > Len(results) THEN <<>>
    ELSE (IF results[i].choice = "none" THEN <<>>
          ELSE IF results[i].choice = "a" THEN results[i].option_a_styles
          ELSE results[i].option_b_styles)
         \o ChosenPairs(results, i + 1)

\* property_votes[prop][value] after the loop.
VotesFor(pairs, pair) == Cardinality({i \in DOMAIN pairs : pairs[i] = pair})

\* max(votes.items(), key=lambda x: x[1]) for one property: the value with
\* the most votes, the one voted first among equals.
MostCommonValue(pairs, prop) ==
    LET of_prop == {i \in DOMAIN pairs : pairs[i][1] = prop}
        firsts  == {i \in of_prop : \A j \in of_prop : pairs[j] = pairs[i] => i <= j}
        best    == CHOOSE i \in firsts :
                       \A j \in firsts :
                           \/ VotesFor(pairs, pairs[j]) < VotesFor(pairs, pairs[i])
                           \/ VotesFor(pairs, pairs[j]) = VotesFor(pairs, pairs[i]) /\ i <= j
    IN  pairs[best][2]

\* The base styles of the given votes, in the order the properties were
\* first voted for.
BaseStylesOf(pairs, props) == [k \in DOMAIN props |-> <<props[k], MostCommonValue(pairs, props[k])>>]

\* _get_base_styles_from_results (pattern_analyzer.py lines 230-269).
get_base_styles_from_results(results) ==
    BaseStylesOf(ChosenPairs(results, 1),
                 AppendNew(<<>>, [i \in DOMAIN ChosenPairs(results, 1) |->
                                     ChosenPairs(results, 1)[i][1]], 1))

\* styles[key] = value on a copy of the dict.
DictSet(styles, key, value) ==
    IF \E i \in DOMAIN styles : styles[i][1] = key
    THEN [i \in DOMAIN styles |-> IF styles[i][1] = key THEN <<key, value>> ELSE styles[i]]
    ELSE Append(styles, <<key, value>>)

\* The two values generate_dimension_isolation_pair takes for a property
\* (random.seed(comparison_id); random.sample over the property's values of
\* the component type shown at that comparison id), as <<comparison_id,
\* property, value of A, value of B>>, for the comparison ids the rounds
\* reach: a card at 11, typography at 12, navigation at 13, a form at 14.
\* A property the component type does not have has fewer than two values.
SeededIsolationValues ==
    <<<<11, "border_radius", "12", "16">>,
      <<11, "shadow", "lg", "xl">>,
      <<11, "border", "subtle", "prominent">>,
      <<11, "padding", "32", "24">>,
      <<11, "background", "gray-50", "gray-100">>,
      <<11, "hover_effect", "border", "glow">>,
      <<12, "heading_weight", "800", "600">>,
      <<12, "heading_size_scale", "1.5", "1.25">>,
      <<12, "body_line_height", "1.75", "1.5">>,
      <<12, "letter_spacing", "0.05", "0">>,
      <<12, "font_family", "mono", "sans-serif">>,
      <<12, "paragraph_spacing", "1.5", "2.0">>,
      <<13, "style", "vertical", "sidebar">>,
      <<13, "item_padding_x", "20", "16">>,
      <<13, "item_padding_y", "10", "12">>,
      <<13, "active_indicator", "border-left", "background">>,
      <<13, "hover_effect", "background", "color">>,
      <<13, "separator", "border", "space">>,
      <<14, "layout", "stacked", "grid">>,
      <<14, "label_style", "above", "floating">>,
      <<14, "spacing", "16", "24">>,
      <<14, "error_style", "inline", "border">>,
      <<14, "required_indicator", "asterisk", "none">>,
      <<14, "help_text_position", "below", "tooltip">>>>

\* The rows of the table for a comparison id and a property.
IsolationValues(comparison_id, property_to_test) ==
    SelectSeq(SeededIsolationValues,
              LAMBDA row : row[1] = comparison_id /\ row[2] = property_to_test)

\* generate_dimension_isolation_pair (variation_service.py lines 176-210).
generate_dimension_isolation_pair(base_styles, property_to_test, comparison_id) ==
    IF IsolationValues(comparison_id, property_to_test) = <<>>
    THEN generate_territory_mapping_pair(comparison_id)
    ELSE <<DictSet(base_styles, property_to_test,
                   IsolationValues(comparison_id, property_to_test)[1][3]),
           DictSet(base_styles, property_to_test,
                   IsolationValues(comparison_id, property_to_test)[1][4])>>

\* generate_comparison with base_styles and property_to_test, as
\* get_next_comparison calls it in dimension_isolation
\* (variation_service.py lines 265-273): empty base styles are falsy.
generate_isolation_comparison(count, base_styles, property_to_test) ==
    IF base_styles # <<>> /\ property_to_test # ""
    THEN generate_dimension_isolation_pair(base_styles, property_to_test, count + 1)
    ELSE generate_territory_mapping_pair(count + 1)

\* tested_props of get_next_comparison (line 199): the component types of
\* the rows recorded in dimension_isolation.
tested_props(results) ==
    {results[i].component_type :
        i \in {j \in DOMAIN results : results[j].phase = "dimension_isolation"}}

\* The pair of the response for the property selected (lines 198-207).
PresentedIsolationPair(property_to_test) ==
    generate_isolation_comparison(
        comparison_count,
        get_base_styles_from_results(NextComparisonResultsDicts(comparison_results)),
        property_to_test)

\* GET /{session_id}/comparison in dimension_isolation (lines 198-207): the
\* response shows a pair made for property_to_test; nothing is written.
get_next_isolation_comparison ==
    /\ phase = "dimension_isolation"
    /\ \E property_to_test \in
              get_property_to_test(NextComparisonResultsDicts(comparison_results),
                                   tested_props(comparison_results)) :
          last_op' = [op |-> "get_next_comparison",
                      property_to_test |-> property_to_test,
                      tested |-> last_op.tested]
    /\ UNCHANGED <<phase, comparison_count, confidence_score, established_preferences,
                   chosen_colors, chosen_typography, studio_progress,
                   comparison_results, style_rules, requests>>

\* POST /{session_id}/comparison/{comparison_id} answering the pair the last
\* GET showed: the property it isolated has now been tested.
submit_isolation_choice ==
    /\ phase = "dimension_isolation"
    /\ last_op.op = "get_next_comparison"
    /\ comparison_count < 10 + MaxIsolationRounds
    /\ \E choice \in {"a", "b", "none"} :
          /\ SubmitComparisonChoiceWrites([choice |-> choice, answers |-> <<>>])
          /\ last_op' = [op |-> "submit_comparison_choice", choice |-> choice,
                         tested |-> last_op.tested \cup {last_op.property_to_test}]

NextIsolation ==
    \/ get_next_isolation_comparison
    \/ submit_isolation_choice

SpecIsolation == InitIsolation /\ [][NextIsolation]_vars

\* The property names with some value whose score lies in [0.4, 0.6].
UncertainProperties(comparison_results_) ==
    LET scores == analyze_territory_mapping(comparison_results_)
    IN  {k[1] : k \in {kk \in DOMAIN scores :
                          /\ RatLeq(Rat(4, 10), scores[kk])
                          /\ RatLeq(scores[kk], Rat(6, 10))}}

\* The property names observed in the log.
ObservedProperties(comparison_results_) ==
    {k[1] : k \in DOMAIN analyze_territory_mapping(comparison_results_)}

MaxScenarioLog == 6

ScenarioRecord(option_a, option_b, choice) ==
    [component_type |-> "button", phase |-> "territory_mapping",
     option_a_styles |-> option_a, option_b_styles |-> option_b,
     choice |-> choice, question_responses |-> <<>>]

\* Comparisons between an option with border_radius 8px and one with 0px:
\* the 8px option wins as option A, as option B, and beside a property on
\* which the options agree; in the last record the 0px option wins.
ScenarioRecords ==
    {ScenarioRecord(<<<<"border_radius", "8px">>, <<"shadow", "none">>>>,
                    <<<<"border_radius", "0px">>, <<"shadow", "lg">>>>, "a"),
     ScenarioRecord(<<<<"border_radius", "0px">>, <<"shadow", "lg">>>>,
                    <<<<"border_radius", "8px">>, <<"shadow", "none">>>>, "b"),
     ScenarioRecord(<<<<"border_radius", "8px">>, <<"padding", "16px">>>>,
                    <<<<"border_radius", "0px">>, <<"padding", "16px">>>>, "a"),
     ScenarioRecord(<<<<"border_radius", "8px">>, <<"shadow", "none">>>>,
                    <<<<"border_radius", "0px">>, <<"shadow", "lg">>>>, "b")}

\* A session whose log is given and whose rules are not yet synthesized.
LoggedSession(log) ==
    /\ phase = "territory_mapping"
    /\ comparison_count = Len(log)
    /\ confidence_score = calculate_session_confidence(SubmitResultsDicts(log))
    /\ established_preferences =
           [exploration_color |-> 0, exploration_typography |-> 0, preferences |-> <<>>]
    /\ chosen_colors = {}
    /\ chosen_typography = {}
    /\ studio_progress = {}
    /\ comparison_results = log
    /\ style_rules = <<>>
    /\ requests = [r \in RequestIds |-> [pc |-> "idle"]]
    /\ last_op = [op |-> "create_session"]

InitScenarioA ==
    \E log \in UNION {[1..n -> ScenarioRecords] :
                        n \in (MaxScenarioLog - 1)..MaxScenarioLog} :
        LoggedSession(log)

\* synthesize_rules_from_patterns applied to the session's log, as
\* get_session_rules applies it (line 70).
SynthesizeRules ==
    /\ last_op.op = "create_session"
    /\ last_op' = [op |-> "synthesize_rules_from_patterns",
                   rules |-> synthesize_rules_from_patterns(
                                 RulesComparisonDicts(comparison_results))]
    /\ UNCHANGED <<phase, comparison_count, confidence_score, established_preferences,
                   chosen_colors, chosen_typography, studio_progress,
                   comparison_results, style_rules, requests>>

NextScenarioA == SynthesizeRules

SpecScenarioA == InitScenarioA /\ [][NextScenarioA]_vars

\* The log has at least 6 records, and in each the chosen option has
\* border_radius 8px and the rejected one border_radius 0px.
ScenarioALog ==
    /\ Len(comparison_results) >= 6
    /\ \A i \in DOMAIN comparison_results :
         LET r == comparison_results[i]
             chosen   == IF r.choice = "a" THEN r.option_a_styles ELSE r.option_b_styles
             rejected == IF r.choice = "a" THEN r.option_b_styles ELSE r.option_a_styles
         IN  /\ r.choice \in {"a", "b"}
             /\ r.question_responses = <<>>
             /\ StyleGet(chosen, "border_radius") = "8px"
             /\ StyleGet(rejected, "border_radius") = "0px"

MaxSynthesisLog == 4

\* 8px over 0px (with a shadow each), 8px over 4px, 12px over 16px, 0px
\* over 8px (with the shadows the other way round), one shadow over the
\* other, and a comparison in which neither option is chosen.
SynthesisRecords ==
    {ScenarioRecord(<<<<"border_radius", "8px">>, <<"shadow", "none">>>>,
                    <<<<"border_radius", "0px">>, <<"shadow", "lg">>>>, "a"),
     ScenarioRecord(<<<<"border_radius", "8px">>>>, <<<<"border_radius", "4px">>>>, "a"),
     ScenarioRecord(<<<<"border_radius", "16px">>>>, <<<<"border_radius", "12px">>>>, "b"),
     ScenarioRecord(<<<<"border_radius", "0px">>, <<"shadow", "lg">>>>,
                    <<<<"border_radius", "8px">>, <<"shadow", "none">>>>, "a"),
     ScenarioRecord(<<<<"shadow", "lg">>>>, <<<<"shadow", "none">>>>, "a"),
     ScenarioRecord(<<<<"border_radius", "8px">>, <<"shadow", "none">>>>,
                    <<<<"border_radius", "0px">>, <<"shadow", "lg">>>>, "none")}

InitSynthesis ==
    \E log \in UNION {[1..n -> SynthesisRecords] : n \in 0..MaxSynthesisLog} :
        LoggedSession(log)

NextSynthesis == SynthesizeRules

SpecSynthesis == InitSynthesis /\ [][NextSynthesis]_vars

\* The rules of the synthesized list that carry the given property and
\* operator, in list order.
RulesOf(rules, property_name, operator) ==
    SelectSeq(rules, LAMBDA rule : rule.property = property_name /\ rule.operator = operator)

ExpandedHex(stripped) ==
    IF Len(stripped) = 3
    THEN Slice(stripped, 1, 1) \o Slice(stripped, 1, 1)
         \o Slice(stripped, 2, 2) \o Slice(stripped, 2, 2)
         \o Slice(stripped, 3, 3) \o Slice(stripped, 3, 3)
    ELSE stripped

\* tuple(int(hex_color[i:i+2], 16) for i in (0, 2, 4)), <<>> when the text
\* is not six hexadecimal digits.
HexChannels(hex_color) ==
    IF Len(hex_color) = 6
       /\ \A i \in 1..6 : HexDigit(Slice(hex_color, i, i)) >= 0
    THEN [i \in 1..3 |->
             16 * HexDigit(Slice(hex_color, 2 * i - 1, 2 * i - 1))
             + HexDigit(Slice(hex_color, 2 * i, 2 * i))]
    ELSE <<>>

\* One (\d+) group of the rgb pattern at the start of rest, closed by the
\* character close: <<>> without a match, else <<value, what follows>>.
RgbGroup(rest, n, close) ==
    IF n > 0 /\ Slice(rest, n + 1, n + 1) = close
    THEN <<DecimalValue(Slice(rest, 1, n)), StrLStrip(Slice(rest, n + 2, Len(rest)))>>
    ELSE <<>>

\* re.match(r'rgb\((\d+),\s*(\d+),\s*(\d+)\)', color_str) after "rgb(".
RgbBlue(red, green, group) == IF group = <<>> THEN <<>> ELSE <<red, green, group[1]>>

RgbGreen(red, group) ==
    IF group = <<>> THEN <<>>
    ELSE RgbBlue(red, group[1], RgbGroup(group[2], DigitsLen(group[2]), ")"))

RgbRed(group) ==
    IF group = <<>> THEN <<>>
    ELSE RgbGreen(group[1], RgbGroup(group[2], DigitsLen(group[2]), ","))

\* parse_color: <<r, g, b>>, or <<>> for None.  int(pair, 16) is taken on
\* pairs of hexadecimal digits; a pair holding another character is the
\* ValueError branch.
parse_color(color_str) ==
    IF color_str = "" THEN <<>>
    ELSE IF Head(color_str) = "#"
    THEN HexChannels(ExpandedHex(StrLStripChar(color_str, "#")))
    ELSE IF Len(color_str) < 4 \/ Slice(color_str, 1, 4) # "rgb(" THEN <<>>
    ELSE RgbRed(RgbGroup(Slice(color_str, 5, Len(color_str)),
                         DigitsLen(Slice(color_str, 5, Len(color_str))), ","))

AbsDiff(x, y) == IF x >= y THEN x - y ELSE y - x

\* A match that would need every channel to differ by less than the
\* tolerance.
colors_match_below_tolerance(expected, found, t) ==
    LET exp_rgb   == parse_color(expected)
        found_rgb == parse_color(found)
    IN  IF exp_rgb = <<>> \/ found_rgb = <<>>
        THEN StrLower(expected) = StrLower(found)
        ELSE \A i \in 1..3 : AbsDiff(exp_rgb[i], found_rgb[i]) < t

\* A match that would bound only how far a found channel lies above the
\* expected one.
colors_match_one_sided(expected, found, t) ==
    LET exp_rgb   == parse_color(expected)
        found_rgb == parse_color(found)
    IN  IF exp_rgb = <<>> \/ found_rgb = <<>>
        THEN StrLower(expected) = StrLower(found)
        ELSE \A i \in 1..3 : found_rgb[i] - exp_rgb[i] <= t

\* The default of the tolerance parameter of colors_match.
tolerance == 20

\* colors_match(expected, found, tolerance); t is the tolerance.
colors_match(expected, found, t) ==
    LET exp_rgb   == parse_color(expected)
        found_rgb == parse_color(found)
    IN  IF exp_rgb = <<>> \/ found_rgb = <<>>
        THEN StrLower(expected) = StrLower(found)
        ELSE \A i \in 1..3 : AbsDiff(exp_rgb[i], found_rgb[i]) <= t

\* parse_size: <<value>> with the value an exact fraction, or <<>> for None.
\* re.match(r'(\d+(?:\.\d+)?)', cleaned) on the stripped string.
SizeValue(cleaned, n, after, m) ==
    IF n = 0 THEN <<>>
    ELSE <<Rat(DecimalValue(Slice(cleaned, 1, n)) * Pow10(m)
               + DecimalValue(Slice(after, 1, m)), Pow10(m))>>

\* The match on the stripped string: n digits, then a "." and digits.
SizeMatch(cleaned, n) ==
    SizeValue(cleaned, n, Slice(cleaned, n + 2, Len(cleaned)),
              IF Slice(cleaned, n + 1, n + 1) = "."
              THEN DigitsLen(Slice(cleaned, n + 2, Len(cleaned))) ELSE 0)

SizeCleaned(cleaned) == SizeMatch(cleaned, DigitsLen(cleaned))

parse_size(size_str) ==
    IF size_str = "" THEN <<>> ELSE SizeCleaned(StrStrip(size_str))

RatLess(x, y) == x.num * y.den < y.num * x.den

\* A check that would evaluate "!=" on strings: the found text must differ
\* from the expected one.
check_rule_with_unequal(rule_operator, expected, found, property_name) ==
    IF StrContains("color", StrLower(property_name))
    THEN colors_match(expected, found, tolerance)
    ELSE IF rule_operator = "!="
    THEN StrLower(expected) # StrLower(found)
    ELSE IF rule_operator = "="
    THEN StrLower(expected) = StrLower(found)
    ELSE TRUE

\* check_rule(rule_operator, expected, found, property_name)
check_rule(rule_operator, expected, found, property_name) ==
    IF StrContains("color", StrLower(property_name))
    THEN colors_match(expected, found, tolerance)
    ELSE LET expected_num == parse_size(expected)
             found_num    == parse_size(found)
             numeric      == expected_num # <<>> /\ found_num # <<>>
         IN  IF numeric /\ rule_operator = ">="
             THEN RatLeq(expected_num[1], found_num[1])
             ELSE IF numeric /\ rule_operator = "<="
             THEN RatLeq(found_num[1], expected_num[1])
             ELSE IF numeric /\ rule_operator = ">"
             THEN RatLess(expected_num[1], found_num[1])
             ELSE IF numeric /\ rule_operator = "<"
             THEN RatLess(found_num[1], expected_num[1])
             ELSE IF numeric /\ rule_operator = "="
             THEN \* abs(found_num - expected_num) < 1
                  AbsDiff(found_num[1].num * expected_num[1].den,
                          expected_num[1].num * found_num[1].den)
                      < found_num[1].den * expected_num[1].den
             ELSE IF rule_operator = "="
             THEN StrLower(expected) = StrLower(found)
             ELSE IF rule_operator = "contains"
             THEN StrContains(StrLower(expected), StrLower(found))
             ELSE IF rule_operator = "one_of"
             THEN LET parts == StrSplit(expected, ",")
                  IN  \E i \in DOMAIN parts :
                         StrLower(StrStrip(parts[i])) = StrLower(found)
             ELSE TRUE

\* calculate_contrast_ratio on the colour pairs of ContrastPairs: <<>> for
\* None when a colour does not parse, else the ratio the code computes
\* (relative luminance with the sRGB exponent 2.4), to two decimals as the
\* violation prints it.
calculate_contrast_ratio(color1, color2) ==
    IF parse_color(color1) = <<>> \/ parse_color(color2) = <<>> THEN <<>>
    ELSE CASE color1 = "#777777" /\ color2 = "#ffffff" -> <<[ratio |-> Rat(448, 100), text |-> "4.48"]>>
           [] color1 = "#d97706" /\ color2 = "#faf5f0" -> <<[ratio |-> Rat(294, 100), text |-> "2.94"]>>
           [] color1 = "#000000" /\ color2 = "#ffffff" -> <<[ratio |-> Rat(2100, 100), text |-> "21.00"]>>

\* dict.get(key, default) on a dict held as a sequence of <<key, value>>.
DictGet(dict, key, default) == IF StyleHas(dict, key) THEN StyleGet(dict, key) ELSE default

RECURSIVE StrJoin(_, _)
\* sep.join(parts)
StrJoin(parts, sep) ==
    IF parts = <<>> THEN ""
    ELSE IF Len(parts) = 1 THEN parts[1]
    ELSE parts[1] \o sep \o StrJoin(Tail(parts), sep)

\* A Violation (message and suggestion, texts derived from the other
\* fields, are left out).
Violation(rule_id, severity, property, expected, found) ==
    [rule_id |-> rule_id, severity |-> severity, property |-> property,
     expected |-> expected, found |-> found]

\* Lines 172-200: the roles of the palette that are set, in the order the
\* code lists them.
ExpectedPalette(chosen_colors_) ==
    SelectSeq([i \in 1..5 |->
                  DictGet(chosen_colors_,
                          <<"primary", "secondary", "accent", "accentSoft", "background">>[i],
                          "")],
              LAMBDA c : c # "")

\* 'key' in extracted_values: an observation is a record that holds the
\* keys the extraction gave.
HasKey(extracted_values, key) == key \in DOMAIN extracted_values

\* Lines 172-200: the palette check; chosen_colors_ is <<>> for None.
PaletteViolations(extracted_values, chosen_colors_) ==
    IF chosen_colors_ = <<>> \/ ~HasKey(extracted_values, "colors") THEN <<>>
    ELSE LET expected_palette == ExpectedPalette(chosen_colors_)
             outside == SelectSeq(extracted_values.colors,
                            LAMBDA color_info :
                                /\ ~\E i \in DOMAIN expected_palette :
                                       colors_match(expected_palette[i], color_info.color,
                                                    tolerance)
                                /\ color_info.color # "")
         IN  [i \in DOMAIN outside |->
                 Violation("color-palette", "warning", outside[i].element \o " color",
                           "One of: " \o StrJoin(expected_palette, ", "),
                           outside[i].color)]

\* Lines 202-225: the typography check; chosen_typography_ is <<>> for None.
TypographyViolations(extracted_values, chosen_typography_) ==
    IF chosen_typography_ = <<>> \/ ~HasKey(extracted_values, "fonts") THEN <<>>
    ELSE LET expected_heading == DictGet(chosen_typography_, "heading", "")
             expected_body    == DictGet(chosen_typography_, "body", "")
             FoundFont(font_info) == StrStrip(StrBefore(font_info.font, ","))
             Expected(font_info) ==
                 IF \/ StrContains("heading", StrLower(font_info.element))
                    \/ font_info.element \in {"h1", "h2", "h3", "h4"}
                 THEN expected_heading ELSE expected_body
             wrong == SelectSeq(extracted_values.fonts,
                          LAMBDA font_info :
                              /\ Expected(font_info) # ""
                              /\ ~StrContains(StrLower(Expected(font_info)),
                                              StrLower(FoundFont(font_info))))
         IN  [i \in DOMAIN wrong |->
                 Violation("typography-font", "warning", wrong[i].element \o " font",
                           Expected(wrong[i]), FoundFont(wrong[i]))]

\* Lines 227-248: the WCAG AA contrast check.
MinRatio(pair) == IF pair.is_large_text THEN Rat(30, 10) ELSE Rat(45, 10)

\* A contrast check that would report an observation without contrast
\* pairs.
ContrastViolationsReportingAbsent(extracted_values) ==
    IF ~HasKey(extracted_values, "contrast_pairs")
    THEN <<Violation("wcag-contrast", "error", "unknown contrast",
                     ">= 4.5:1 (WCAG AA)", "")>>
    ELSE <<>>

ContrastViolations(extracted_values) ==
    IF ~HasKey(extracted_values, "contrast_pairs") THEN <<>>
    ELSE
    LET low == SelectSeq(extracted_values.contrast_pairs,
                   LAMBDA pair :
                       LET ratio == calculate_contrast_ratio(pair.foreground, pair.background)
                       IN  ratio # <<>> /\ RatLess(ratio[1].ratio, MinRatio(pair)))
    IN  [i \in DOMAIN low |->
            Violation("wcag-contrast", "error", low[i].element \o " contrast",
                      (IF low[i].is_large_text THEN ">= 3.0:1 (WCAG AA)"
                       ELSE ">= 4.5:1 (WCAG AA)"),
                      calculate_contrast_ratio(low[i].foreground,
                                               low[i].background)[1].text \o ":1")]

\* Lines 262-264: the normalization of a rule property and of a
\* measurement key.
Normalized(name) == StrReplace(StrReplace(StrLower(name), "-", "_"), " ", "_")

\* The check_rule calls of one rule if a rule matched every key that either
\* holds its normalized property or is held by it.
RuleChecksOfEitherWay(rule, measurements) ==
    LET matching == SelectSeq(measurements,
                        LAMBDA item :
                            \/ StrContains(Normalized(rule.property), Normalized(item[1]))
                            \/ StrContains(Normalized(item[1]), Normalized(rule.property)))
    IN  [i \in DOMAIN matching |->
            [rule_id |-> rule.rule_id, key |-> matching[i][1], found |-> matching[i][2],
             passed |-> check_rule(rule.operator, rule.value, matching[i][2],
                                   rule.property)]]

\* Lines 250-267: the check_rule calls of one rule, in the order of the
\* measurements: one for every key that holds the rule's normalized property.
RuleChecksOf(rule, measurements) ==
    LET matching == SelectSeq(measurements,
                        LAMBDA item : StrContains(Normalized(rule.property),
                                                  Normalized(item[1])))
    IN  [i \in DOMAIN matching |->
            [rule_id |-> rule.rule_id, key |-> matching[i][1], found |-> matching[i][2],
             passed |-> check_rule(rule.operator, rule.value, matching[i][2],
                                   rule.property)]]

RECURSIVE RuleChecks(_, _, _)
\* The check_rule calls of rules[i..], rule by rule.
RuleChecks(rules, i, measurements) ==
    IF i > Len(rules) THEN <<>>
    ELSE RuleChecksOf(rules[i], measurements) \o RuleChecks(rules, i + 1, measurements)

RECURSIVE RuleViolations(_, _, _)
\* Lines 250-276: the violations of rules[i..], one for every failed check.
RuleViolations(rules, i, measurements) ==
    IF i > Len(rules) THEN <<>>
    ELSE LET rule   == rules[i]
             failed == SelectSeq(RuleChecksOf(rule, measurements),
                                 LAMBDA check : ~check.passed)
         IN  [j \in DOMAIN failed |->
                 Violation(rule.rule_id,
                           (IF rule.severity = "" THEN "warning" ELSE rule.severity),
                           rule.property,
                           rule.operator \o " " \o rule.value,
                           failed[j].found)]
             \o RuleViolations(rules, i + 1, measurements)

\* extracted_values.get('measurements', {}) (line 258)
Measurements(extracted_values) ==
    IF HasKey(extracted_values, "measurements") THEN extracted_values.measurements
    ELSE <<>>

\* apply_rules_to_extracted_values
apply_rules_to_extracted_values(extracted_values, rules, colors, typography) ==
    PaletteViolations(extracted_values, colors)
    \o TypographyViolations(extracted_values, typography)
    \o ContrastViolations(extracted_values)
    \o RuleViolations(rules, 1, Measurements(extracted_values))

\* sum(1 for v in violations if v.severity == severity)
SeverityCount(violations, severity) ==
    Len(SelectSeq(violations, LAMBDA v : v.severity = severity))

\* A score that would charge 5 points for every violation that is not an
\* error.
AuditScoreChargingAll(violations) ==
    LET error_count == SeverityCount(violations, "error")
        raw         == 100 - (error_count * 15) - ((Len(violations) - error_count) * 5)
    IN  IF raw > 0 THEN raw ELSE 0

\* audit_screenshot lines 417-420.
AuditScore(violations) ==
    LET error_count   == SeverityCount(violations, "error")
        warning_count == SeverityCount(violations, "warning")
        raw           == 100 - (error_count * 15) - (warning_count * 5)
    IN  IF raw > 0 THEN raw ELSE 0

(***************************************************************************)
(* The audit, applied to given rules, palette, typography and extracted    *)
(* values.  The rule list, the palette and the typography are the          *)
(* arguments apply_rules_to_extracted_values receives from the session;    *)
(* they are drawn in the initial state.  The rule list ranges over the     *)
(* operators and severities a rule can carry (the baseline rule tables     *)
(* use >= and <=), not only over "=" and "!=" of the rows the session      *)
(* routes write.  The extracted values are what the vision provider        *)
(* answers.                                                                *)
(***************************************************************************)
\* The largest number of entries of one section (colors, fonts,
\* measurements, contrast_pairs) of the extracted values.
MaxExtracted == 2

AuditRule(n, property_name, operator, value, severity) ==
    [id |-> n, rule_id |-> "gen-" \o Pad3(n), component_type |-> Null,
     property |-> property_name, operator |-> operator, value |-> value,
     severity |-> severity, confidence |-> Rat(1, 1), source |-> "stated",
     message |-> "", is_modified |-> TRUE]

AuditRules ==
    <<AuditRule(1, "radius", "=", "0px", "error"),
      AuditRule(2, "border_radius", "=", json_dumps("8px"), ""),
      AuditRule(3, "Border-Radius", "!=", "8px", "warning"),
      AuditRule(4, "background_color", "!=", "#000000", "info"),
      AuditRule(5, "padding", ">=", "16", "error"),
      AuditRule(6, "padding", "<", "4", "critical"),
      AuditRule(7, "radius", "between", "0,2", "warning")>>

\* A palette with every role, and a posted option without accentSoft, with
\* an empty secondary and with a colour name as accent.
AuditPalettes ==
    PaletteOptions
    \cup {<<<<"id", "custom">>, <<"primary", "#1e3a8a">>, <<"secondary", "">>,
            <<"accent", "red">>, <<"background", "#fff">>>>}

\* Extracted colours: the primary itself, one with every channel 20 away
\* from it, one with a channel 21 away, one without a colour, a colour name.
ExtractedColors ==
    <<[element |-> "button background", color |-> "#1e3a8a"],
      [element |-> "link", color |-> "#0a2676"],
      [element |-> "border", color |-> "#1e3a9f"],
      [element |-> "icon", color |-> ""],
      [element |-> "badge", color |-> "Red"]>>

ExtractedFonts ==
    <<[element |-> "Page Heading", font |-> "Inter, sans-serif"],
      [element |-> "h2", font |-> "Georgia"],
      [element |-> "body text", font |-> " inter Tight ,serif"]>>

ExtractedMeasurements ==
    <<<<"button_border_radius", "8px">>, <<"radius", "4px">>,
      <<"Card-Border Radius", "12px">>, <<"padding", "8">>,
      <<"background-color", "#ffffff">>>>

ContrastPairs ==
    <<[element |-> "body text", foreground |-> "#777777", background |-> "#ffffff",
       is_large_text |-> FALSE],
      [element |-> "heading", foreground |-> "#777777", background |-> "#ffffff",
       is_large_text |-> TRUE],
      [element |-> "caption", foreground |-> "#d97706", background |-> "#faf5f0",
       is_large_text |-> TRUE],
      [element |-> "badge", foreground |-> "red", background |-> "#ffffff",
       is_large_text |-> FALSE]>>

\* The entries of a list at the given positions, in list order.
Picked(list, positions) ==
    LET Count(i) == Cardinality({j \in positions : j <= i})
    IN  [k \in 1..Cardinality(positions) |->
            list[CHOOSE i \in positions : Count(i) = k]]

\* The sub-lists of at most MaxExtracted entries.
SubLists(list) ==
    {Picked(list, positions) :
        positions \in {ps \in SUBSET DOMAIN list : Cardinality(ps) <= MaxExtracted}}

\* The rule lists of the audited sessions: each rule alone, and the rules
\* up to each rule.
AuditRuleLists ==
    {<<AuditRules[i]>> : i \in DOMAIN AuditRules}
    \cup {SubSeq(AuditRules, 1, n) : n \in 0..Len(AuditRules)}

NoExtracted == [colors |-> <<>>, fonts |-> <<>>, measurements |-> <<>>, contrast_pairs |-> <<>>]

\* The answers of the vision provider: one section filled, or every section
\* filled with every entry.  (A section that is missing and one that is
\* empty give the same violations.)
ExtractedValues ==
    {[NoExtracted EXCEPT !.colors = l] : l \in SubLists(ExtractedColors)}
    \cup {[NoExtracted EXCEPT !.fonts = l] : l \in SubLists(ExtractedFonts)}
    \cup {[NoExtracted EXCEPT !.measurements = l] : l \in SubLists(ExtractedMeasurements)}
    \cup {[NoExtracted EXCEPT !.contrast_pairs = l] : l \in SubLists(ContrastPairs)}
    \cup {[colors |-> ExtractedColors, fonts |-> ExtractedFonts,
           measurements |-> ExtractedMeasurements, contrast_pairs |-> ContrastPairs]}

\* The audited sessions, as <<rules, chosen_colors, chosen_typography>>:
\* each rule list before a palette is chosen, and no rule or every rule
\* with each palette and with or without each font pairing.
AuditSessions ==
    {<<rules, {}, {}>> : rules \in AuditRuleLists}
    \cup {<<rules, {palette}, typography>> :
             rules \in {<<>>, AuditRules}, palette \in AuditPalettes,
             typography \in {{}} \cup {{TypographySelection(option)} :
                                           option \in TypographyOptions}}

InitAudit ==
    /\ \E session \in AuditSessions :
          /\ style_rules = session[1]
          /\ chosen_colors = session[2]
          /\ chosen_typography = session[3]
    /\ phase = (IF chosen_colors = {} THEN "color_exploration"
                ELSE IF chosen_typography = {} THEN "typography_exploration"
                ELSE "component_studio")
    /\ comparison_count = 0
    /\ confidence_score = Rat(0, 1)
    /\ established_preferences =
           [exploration_color |-> 0, exploration_typography |-> 0, preferences |-> <<>>]
    /\ studio_progress = {}
    /\ comparison_results = <<>>
    /\ requests = [r \in RequestIds |-> [pc |-> "idle"]]
    /\ last_op = [op |-> "create_session"]

\* json.loads(session.chosen_colors) when the column is set, else None (<<>>).
LoadedChoice(column) == IF column = {} THEN <<>> ELSE CHOOSE styles \in column : TRUE

\* The result returned without a provider (lines 339-354, 441-456).
DemoResult(chosen_colors_) ==
    [violations |-> <<Violation("demo-001", "warning", "color",
                                (IF chosen_colors_ = <<>> THEN "defined palette"
                                 ELSE "chosen_colors"), "unknown")>>,
     score |-> 75]

\* POST /api/audit/screenshot, from the extraction on.  outcome tells what
\* the extraction gave: no provider (the fixed demo result), an answer that
\* is not JSON (the fixed score 50), a failure of the provider (HTTP 500),
\* or extracted values, to which the rules are applied (lines 410-432).
audit_screenshot(outcome, extracted_values) ==
    LET chosen_colors_     == LoadedChoice(chosen_colors)
        chosen_typography_ == LoadedChoice(chosen_typography)
        violations == apply_rules_to_extracted_values(
                          extracted_values, style_rules, chosen_colors_,
                          chosen_typography_)
    IN  /\ last_op' =
              IF outcome = "no_provider"
              THEN [op |-> "audit_screenshot", outcome |-> outcome,
                    extracted_values |-> NoExtracted, checks |-> <<>>,
                    violations |-> DemoResult(chosen_colors_).violations,
                    score |-> DemoResult(chosen_colors_).score]
              ELSE IF outcome = "not_json"
              THEN [op |-> "audit_screenshot", outcome |-> outcome,
                    extracted_values |-> NoExtracted, checks |-> <<>>,
                    violations |-> <<>>, score |-> 50]
              ELSE IF outcome = "provider_error"
              THEN [op |-> "audit_screenshot", outcome |-> "http_500"]
              ELSE [op |-> "audit_screenshot", outcome |-> outcome,
                    extracted_values |-> extracted_values,
                    checks |-> RuleChecks(style_rules, 1, Measurements(extracted_values)),
                    violations |-> violations,
                    score |-> AuditScore(violations)]
        /\ UNCHANGED <<phase, comparison_count, confidence_score, established_preferences,
                       chosen_colors, chosen_typography, studio_progress,
                       comparison_results, style_rules, requests>>

\* One audit of the session.
AuditScreenshot ==
    /\ last_op.op = "create_session"
    /\ \/ \E outcome \in {"no_provider", "not_json", "provider_error"} :
             audit_screenshot(outcome, NoExtracted)
       \/ \E extracted_values \in ExtractedValues :
             audit_screenshot("extracted", extracted_values)

NextAudit == AuditScreenshot

SpecAudit == InitAudit /\ [][NextAudit]_vars

\* An audit has applied the rules to extracted values.
Audited == last_op.op = "audit_screenshot" /\ last_op.outcome = "extracted"

ChecksFor(rule_id, key) ==
    {i \in DOMAIN last_op.checks :
        last_op.checks[i].rule_id = rule_id /\ last_op.checks[i].key = key}

\* C15: a rule is evaluated against a measurement key exactly when the
\* rule's normalized property (lowercased, hyphens and spaces replaced by
\* underscores) is a substring of the normalized key, and then once; a rule
\* on "radius" is evaluated against "button_border_radius", a rule on
\* "border_radius" is never evaluated against the key "radius".
C15_AsymmetricContainment ==
    Audited =>
        LET measurements == last_op.extracted_values.measurements
        IN  /\ \A r \in DOMAIN style_rules, m \in DOMAIN measurements :
                  Cardinality(ChecksFor(style_rules[r].rule_id, measurements[m][1]))
                      = IF StrContains(
                               StrReplace(StrReplace(StrLower(style_rules[r].property),
                                                     "-", "_"), " ", "_"),
                               StrReplace(StrReplace(StrLower(measurements[m][1]),
                                                     "-", "_"), " ", "_"))
                        THEN 1 ELSE 0
            /\ \A r \in DOMAIN style_rules :
                  /\ (/\ style_rules[r].property = "radius"
                      /\ StyleHas(measurements, "button_border_radius"))
                     => ChecksFor(style_rules[r].rule_id, "button_border_radius") # {}
                  /\ style_rules[r].property = "border_radius"
                     => ChecksFor(style_rules[r].rule_id, "radius") = {}
            /\ \A i \in DOMAIN last_op.checks :
                  /\ \E r \in DOMAIN style_rules :
                        style_rules[r].rule_id = last_op.checks[i].rule_id
                  /\ StyleHas(measurements, last_op.checks[i].key)

\* An audit with a rule on "radius" and a rule on "border_radius" has met
\* the keys "button_border_radius" and "radius": both rules were evaluated
\* against the first key, only the rule on "radius" against the second.
C15_Witness ==
    /\ Audited
    /\ \E r1, r2 \in DOMAIN style_rules :
          /\ style_rules[r1].property = "radius"
          /\ style_rules[r2].property = "border_radius"
          /\ ChecksFor(style_rules[r1].rule_id, "button_border_radius") # {}
          /\ ChecksFor(style_rules[r2].rule_id, "button_border_radius") # {}
          /\ ChecksFor(style_rules[r1].rule_id, "radius") # {}
          /\ ChecksFor(style_rules[r2].rule_id, "radius") = {}
    /\ StyleHas(last_op.extracted_values.measurements, "radius")

\* The found values of the color-palette violations of an audit, in order.
PaletteFound ==
    LET reported == SelectSeq(last_op.violations, LAMBDA v : v.rule_id = "color-palette")
    IN  [i \in DOMAIN reported |-> reported[i].found]

\* Two colours match within the tolerance: every channel differs by at most
\* 20; colours that are not both parsable match when they are the same
\* text, case aside.
WithinTolerance(expected, found) ==
    LET e == parse_color(expected)
        f == parse_color(found)
    IN  IF e # <<>> /\ f # <<>>
        THEN \A i \in 1..3 : e[i] - f[i] \in -20..20
        ELSE StrLower(expected) = StrLower(found)

\* C16: with a chosen palette, the audit reports one color-palette warning
\* (found = the colour) for each non-empty extracted colour that matches
\* none of the roles primary, secondary, accent, accentSoft, background that
\* are set, and none for a colour matching some role.
C16_PaletteWarnings ==
    (Audited /\ chosen_colors # {}) =>
        LET palette == CHOOSE p \in chosen_colors : TRUE
            roles   == {role \in {"primary", "secondary", "accent", "accentSoft",
                                  "background"} :
                            StyleHas(palette, role) /\ StyleGet(palette, role) # ""}
            outside == SelectSeq(last_op.extracted_values.colors,
                           LAMBDA c : /\ c.color # ""
                                      /\ \A role \in roles :
                                            ~WithinTolerance(StyleGet(palette, role),
                                                             c.color))
        IN  /\ PaletteFound = [i \in DOMAIN outside |-> outside[i].color]
            /\ \A i \in DOMAIN last_op.violations :
                  last_op.violations[i].rule_id = "color-palette"
                  => last_op.violations[i].severity = "warning"

\* An audit against the palette without accentSoft and secondary has met
\* the primary, a colour 20 away from it in every channel, a colour 21 away
\* in one channel, an entry without colour and the accent's colour name, and
\* has reported the colour 21 away alone.
C16_Witness ==
    /\ Audited
    /\ chosen_colors # {}
    /\ \A p \in chosen_colors : ~StyleHas(p, "accentSoft")
    /\ last_op.extracted_values.colors = ExtractedColors
    /\ PaletteFound = <<"#1e3a9f">>

\* The operators check_rule implements for a property that is not a colour.
SupportedOperators == {"=", ">=", "<=", ">", "<", "contains", "one_of"}

\* C17: for a rule whose property name does not contain "color" and whose
\* operator is none of =, >=, <=, >, <, contains, one_of, every evaluation
\* passes whatever the expected and found values, so the rule produces no
\* violation; "!=" is such an operator.
C17_UnsupportedOperatorPasses ==
    Audited =>
        \A r \in DOMAIN style_rules :
            (/\ ~StrContains("color", StrLower(style_rules[r].property))
             /\ style_rules[r].operator \notin SupportedOperators)
            => /\ \A i \in DOMAIN last_op.checks :
                     last_op.checks[i].rule_id = style_rules[r].rule_id
                     => last_op.checks[i].passed = TRUE
               /\ \A i \in DOMAIN last_op.violations :
                     last_op.violations[i].rule_id # style_rules[r].rule_id

\* An audit has evaluated a "!=" rule on Border-Radius with value 8px
\* against a measurement of 8px, and a rule with the operator "between",
\* and both evaluations passed.
C17_Witness ==
    /\ Audited
    /\ \E r \in DOMAIN style_rules, i \in DOMAIN last_op.checks :
          /\ style_rules[r].operator = "!="
          /\ style_rules[r].property = "Border-Radius"
          /\ style_rules[r].value = "8px"
          /\ last_op.checks[i].rule_id = style_rules[r].rule_id
          /\ last_op.checks[i].found = "8px"
          /\ last_op.checks[i].passed
    /\ \E r \in DOMAIN style_rules, i \in DOMAIN last_op.checks :
          /\ style_rules[r].operator = "between"
          /\ last_op.checks[i].rule_id = style_rules[r].rule_id
          /\ last_op.checks[i].passed


(***************************************************************************)
(* The flow that creates rules next to the baseline rules: the palette and *)
(* the typography are selected, comparisons of the component_studio phase  *)
(* are answered (the fourth one shows the typography pair), rules are      *)
(* synthesized by GET rules and stated by POST rules.                      *)
(***************************************************************************)
\* The number of comparisons answered in the component_studio phase.
MaxConflictLog == 4

ConflictFlowSelectPalette ==
    \E selected_option \in PaletteOptions : select_palette(selected_option, FALSE)

ConflictFlowSelectTypography ==
    \E selected_option \in TypographyOptions : select_typography(selected_option, FALSE)

ConflictFlowComparison ==
    /\ phase = "component_studio"
    /\ NoRequestInFlight
    /\ Len(comparison_results) < MaxConflictLog
    /\ \E choice \in {"a", "b"} :
          submit_comparison_choice([choice |-> choice, answers |-> <<>>])

NextConflicts ==
    \/ ConflictFlowSelectPalette
    \/ ConflictFlowSelectTypography
    \/ ConflictFlowComparison
    \/ SerialGetSessionRulesQuery
    \/ GetSessionRulesCommit
    \/ SerialAddStatedRule

SpecConflicts == Init /\ [][NextConflicts]_vars

\* The rows of style_rules' that the step created.
CreatedRows ==
    {i \in DOMAIN style_rules' :
        \A j \in DOMAIN style_rules : style_rules[j].id # style_rules'[i].id}

\* C18: whenever a step creates a stated or extracted rule that conflicts
\* with baseline rules (per check_baseline_conflict), the response of the
\* step names the ids of those baseline rules, and the rule is stored with
\* the property, operator and value it was created with.
C18_ConflictsReported ==
    [][\A i \in CreatedRows :
          LET rule      == style_rules'[i]
              conflicts == check_baseline_conflict(UserRule(rule))
          IN  (rule.source \in {"stated", "extracted"} /\ conflicts # <<>>)
              => /\ \A c \in DOMAIN conflicts :
                       \E k \in DOMAIN last_op'.conflicts :
                           last_op'.conflicts[k] = conflicts[c].id
                 /\ \/ \E rule_data \in RuleStatements :
                          LET parsed == parse_stated_preference(rule_data.statement,
                                                                rule_data.component)
                          IN  /\ rule.property = parsed.property
                              /\ rule.operator = parsed.operator
                              /\ rule.value = parsed.value
                    \/ \E r \in RequestIds :
                          /\ requests[r].pc = "get_session_rules"
                          /\ \E k \in DOMAIN requests[r].new_rules :
                                /\ rule.property = requests[r].new_rules[k].property
                                /\ rule.operator = requests[r].new_rules[k].operator
                                /\ rule.value = requests[r].new_rules[k].value]_vars

(***************************************************************************)
(* The end of dimension_isolation: sessions that entered the phase at the  *)
(* count of 10 or 14 and have answered up to 28 or 29 comparisons in all   *)
(* go on answering.                                                        *)
(***************************************************************************)
\* The number of last answers of the log that vary.
MaxThresholdTail == 2

\* The row submit_comparison_choice stored as the i-th of the log (lines
\* 308-318): the pair of comparison_count i - 1.
StoredRow(i, row_phase, choice) ==
    [component_type |-> get_next_component_type(i - 1), phase |-> row_phase,
     option_a_styles |-> generate_territory_mapping_pair(i)[1],
     option_b_styles |-> generate_territory_mapping_pair(i)[2],
     choice |-> choice, question_responses |-> <<>>]

\* The log of a session that entered dimension_isolation at the count of
\* entry and has answered count comparisons, the last ones as tail says.
ThresholdLog(entry, count, tail) ==
    [i \in 1..count |->
        StoredRow(i,
                  IF i <= entry THEN "territory_mapping" ELSE "dimension_isolation",
                  IF i > count - Len(tail) THEN tail[i - (count - Len(tail))] ELSE "a")]

InitThreshold ==
    /\ phase = "dimension_isolation"
    /\ comparison_count \in {28, 29}
    /\ \E entry \in {10, 14} :
          \E tail \in [1..MaxThresholdTail -> {"a", "b", "none"}] :
              comparison_results = ThresholdLog(entry, comparison_count, tail)
    /\ confidence_score =
           calculate_session_confidence(SubmitResultsDicts(comparison_results))
    /\ established_preferences =
           [exploration_color |-> 0, exploration_typography |-> 0, preferences |-> <<>>]
    /\ chosen_colors = {}
    /\ chosen_typography = {}
    /\ studio_progress = {}
    /\ style_rules = <<>>
    /\ requests = [r \in RequestIds |-> [pc |-> "idle"]]
    /\ last_op = [op |-> "create_session"]

\* POST /{session_id}/comparison/{comparison_id} in dimension_isolation.
SubmitIsolationComparison ==
    /\ phase = "dimension_isolation"
    /\ \E choice \in {"a", "b", "none"} :
          submit_comparison_choice([choice |-> choice, answers |-> <<>>])

NextThreshold == SubmitIsolationComparison

SpecThreshold == InitThreshold /\ [][NextThreshold]_vars

\* The number of comparisons of the log submitted in dimension_isolation.
SubmittedInIsolation(results) ==
    Cardinality({i \in DOMAIN results : results[i].phase = "dimension_isolation"})

C20_LockInNeverCleared ==
    [][/\ chosen_colors # {} => chosen_colors' # {}
       /\ chosen_typography # {} => chosen_typography' # {}]_vars

\* Both columns are set and the session has gone on: a comparison of the
\* component_studio phase has been answered after the two lock-ins.
C20_Witness ==
    /\ chosen_colors # {}
    /\ chosen_typography # {}
    /\ phase = "component_studio"
    /\ comparison_count >= 1
    /\ last_op.op = "submit_comparison_choice"

(***************************************************************************)
(* Observations that lack keys (src/backend/src/audit_routes.py 163-278,   *)
(* tests/test_audit_integration.py 139-178).                               *)
(***************************************************************************)
ObservationKeys == {"colors", "fonts", "measurements", "contrast_pairs"}

\* The observation that holds the given keys of a full one.
WithKeys(extracted_values, keys) == [key \in keys |-> extracted_values[key]]

\* The observations applied: every subset of the keys, each present key
\* holding every entry or none.
PartialObservations ==
    {WithKeys(full, keys) :
        full \in {NoExtracted,
                  [colors |-> ExtractedColors, fonts |-> ExtractedFonts,
                   measurements |-> ExtractedMeasurements,
                   contrast_pairs |-> ContrastPairs]},
        keys \in SUBSET ObservationKeys}

\* apply_rules_to_extracted_values(extracted_values, rules, chosen_colors,
\* chosen_typography) called on the rules and choices of the session, as
\* the tests of TestEdgeCases call it, once.
ApplyRulesToExtractedValues ==
    /\ last_op.op = "create_session"
    /\ \E extracted_values \in PartialObservations :
          last_op' = [op |-> "apply_rules_to_extracted_values",
                      extracted_values |-> extracted_values,
                      violations |-> apply_rules_to_extracted_values(
                                         extracted_values, style_rules,
                                         LoadedChoice(chosen_colors),
                                         LoadedChoice(chosen_typography))]
    /\ UNCHANGED <<phase, comparison_count, confidence_score, established_preferences,
                   chosen_colors, chosen_typography, studio_progress,
                   comparison_results, style_rules, requests>>

NextAbsentKeys == ApplyRulesToExtractedValues

SpecAbsentKeys == InitAudit /\ [][NextAbsentKeys]_vars

\* The violations with the given rule ids.
ViolationsOf(violations, rule_ids) ==
    SelectSeq(violations, LAMBDA v : v.rule_id \in rule_ids)

\* C22: apply_rules_to_extracted_values returns a list of violations for
\* every subset of the keys colors, fonts, measurements, contrast_pairs
\* missing and for chosen_colors or chosen_typography None, and a key that
\* is absent contributes no violation: no palette violation without colors,
\* no font violation without fonts, no contrast violation without
\* contrast_pairs, no rule violation without measurements.
C22_TotalOverAbsentKeys ==
    last_op.op = "apply_rules_to_extracted_values" =>
        LET extracted_values == last_op.extracted_values
            violations       == last_op.violations
        IN  /\ DOMAIN violations = 1..Len(violations)
            /\ \A i \in DOMAIN violations :
                   DOMAIN violations[i] = DOMAIN Violation("", "", "", "", "")
            /\ ~HasKey(extracted_values, "colors")
                   => ViolationsOf(violations, {"color-palette"}) = <<>>
            /\ ~HasKey(extracted_values, "fonts")
                   => ViolationsOf(violations, {"typography-font"}) = <<>>
            /\ ~HasKey(extracted_values, "contrast_pairs")
                   => ViolationsOf(violations, {"wcag-contrast"}) = <<>>
            /\ ~HasKey(extracted_values, "measurements")
                   => ViolationsOf(violations,
                                   {style_rules[i].rule_id : i \in DOMAIN style_rules}) = <<>>
            /\ (chosen_colors = {} => ViolationsOf(violations, {"color-palette"}) = <<>>)
            /\ (chosen_typography = {}
                   => ViolationsOf(violations, {"typography-font"}) = <<>>)

\* A session with every rule and a palette but no font pairing is applied
\* to an observation that holds only colors: the palette violations are
\* returned and nothing else.
C22_Witness ==
    /\ last_op.op = "apply_rules_to_extracted_values"
    /\ DOMAIN last_op.extracted_values = {"colors"}
    /\ style_rules = AuditRules
    /\ chosen_colors # {}
    /\ chosen_typography = {}
    /\ last_op.violations # <<>>
    /\ ViolationsOf(last_op.violations, {"color-palette"}) = last_op.violations

(***************************************************************************)
(* colors_match on pairs of strings (src/backend/src/audit_routes.py       *)
(* 49-77, tests/test_tml_rules.py 53-87).                                  *)
(***************************************************************************)
\* The strings matched: hex colours in both cases and both lengths, rgb()
\* colours, colour names, the empty string and strings parse_color gives
\* up on.
ColorStrings ==
    {"#1e3a8a", "#1E3A8A", "#0a2676", "rgb(30, 58, 138)", "rgb(10,38,118)",
     "#fff", "#FFFFFF", "Red", "red", "", "#12", "#gg0000", "rgb(1,2)"}

\* The tolerances matched with: exact, the default, and one that every
\* pair of channels meets.
Tolerances == {0, tolerance, 255}

InitColorsMatch == InitAudit /\ style_rules = <<>> /\ chosen_colors = {}

\* colors_match(expected, found, tolerance) is called once.
ColorsMatch ==
    /\ last_op.op = "create_session"
    /\ \E expected \in ColorStrings, found \in ColorStrings, t \in Tolerances :
          last_op' = [op |-> "colors_match", expected |-> expected, found |-> found,
                      tolerance |-> t, result |-> colors_match(expected, found, t)]
    /\ UNCHANGED <<phase, comparison_count, confidence_score, established_preferences,
                   chosen_colors, chosen_typography, studio_progress,
                   comparison_results, style_rules, requests>>

NextColorsMatch == ColorsMatch

SpecColorsMatch == InitColorsMatch /\ [][NextColorsMatch]_vars

\* C23: colors_match is symmetric: colors_match(a, b, t) equals
\* colors_match(b, a, t) for all strings a and b and every tolerance t,
\* whether the two sides parse or not.
C23_ColorsMatchSymmetric ==
    last_op.op = "colors_match" =>
        last_op.result = colors_match(last_op.found, last_op.expected, last_op.tolerance)

\* A colour that parses has been matched with a name that does not, at
\* the default tolerance: no match, in this order as in the other.
C23_Witness ==
    /\ last_op.op = "colors_match"
    /\ last_op.expected = "#1e3a8a"
    /\ last_op.found = "Red"
    /\ last_op.tolerance = tolerance
    /\ parse_color(last_op.expected) # <<>>
    /\ parse_color(last_op.found) = <<>>
    /\ ~last_op.result

(***************************************************************************)
(* Rule identifiers of one synthesis run over properties of several        *)
(* component types (src/backend/src/rule_synthesizer.py 25-69).            *)
(***************************************************************************)
\* The length of the longest log of the runs.
MaxPrefixLog == 3

\* Comparisons over border_radius (no component type, prefix gen),
\* font_weight (typography, typ) and text_transform (button, but).
PrefixRecords ==
    {ScenarioRecord(<<<<"border_radius", "8px">>>>, <<<<"border_radius", "0px">>>>, "a"),
     ScenarioRecord(<<<<"font_weight", "600">>>>, <<<<"font_weight", "400">>>>, "a"),
     ScenarioRecord(<<<<"border_radius", "8px">>, <<"font_weight", "600">>>>,
                    <<<<"border_radius", "0px">>, <<"font_weight", "400">>>>, "a"),
     ScenarioRecord(<<<<"text_transform", "none">>>>,
                    <<<<"text_transform", "uppercase">>>>, "b"),
     ScenarioRecord(<<<<"font_weight", "400">>, <<"text_transform", "uppercase">>>>,
                    <<<<"font_weight", "600">>, <<"text_transform", "none">>>>, "b")}

InitPrefixes ==
    \E log \in UNION {[1..n -> PrefixRecords] : n \in 0..MaxPrefixLog} :
        LoggedSession(log)

NextPrefixes == SynthesizeRules

SpecPrefixes == InitPrefixes /\ [][NextPrefixes]_vars

\* The prefix of a rule identifier: the part before "-NNN".
IdPrefix(rule_id) == Slice(rule_id, 1, Len(rule_id) - 4)

\* The number of the rules up to position i that carry the prefix of
\* rule i.
RankInPrefix(rules, i) ==
    Cardinality({j \in 1..i : IdPrefix(rules[j].rule_id) = IdPrefix(rules[i].rule_id)})

\* C24: within one run of synthesize_rules_from_patterns the rules that
\* carry one prefix (gen, or the first three letters of the component
\* type) are numbered 001, 002, ... without gaps, whatever rules with other
\* prefixes the run creates.
C24_SequentialPerPrefix ==
    last_op.op = "synthesize_rules_from_patterns" =>
        \A i \in DOMAIN last_op.rules :
            last_op.rules[i].rule_id
                = RulePrefix(last_op.rules[i].component_type) \o "-"
                  \o Pad3(RankInPrefix(last_op.rules, i))

(***************************************************************************)
(* Lock-in requests on sessions of every phase                             *)
(* (src/backend/src/comparison_routes.py 588-646).                         *)
(***************************************************************************)
\* The largest comparison_count of the sessions a lock-in is sent to.
MaxLockInCount == 5

\* The values of the phase column.
SessionPhases ==
    {"color_exploration", "typography_exploration", "component_studio",
     "territory_mapping", "dimension_isolation", "stated_preferences", "complete"}

\* The sessions a lock-in is sent to: of every phase, with a palette once
\* past color_exploration and a font pairing once past
\* typography_exploration.
InitLockIn ==
    /\ phase \in SessionPhases
    /\ comparison_count \in 0..MaxLockInCount
    /\ chosen_colors \in
           IF phase = "color_exploration" THEN {{}}
           ELSE {{palette} : palette \in AuditPalettes}
    /\ chosen_typography \in
           IF phase \in {"color_exploration", "typography_exploration"} THEN {{}}
           ELSE {{TypographySelection(option)} : option \in TypographyOptions}
    /\ confidence_score = Rat(0, 1)
    /\ established_preferences =
           [exploration_color |-> 0, exploration_typography |-> 0, preferences |-> <<>>]
    /\ studio_progress = {}
    /\ comparison_results = <<>>
    /\ style_rules = <<>>
    /\ requests = [r \in RequestIds |-> [pc |-> "idle"]]
    /\ last_op = [op |-> "create_session"]

LockInRefused == \E chosen_styles \in LockInStyles : lock_in_choice_refused(chosen_styles)

NextLockIn ==
    \/ LockIn
    \/ LockInRefused

SpecLockIn == InitLockIn /\ [][NextLockIn]_vars

\* C25: a lock_in_choice request on a session whose phase is neither
\* color_exploration nor typography_exploration fails with HTTP 400 and
\* leaves phase, comparison_count, chosen_colors and chosen_typography as
\* they were.
C25_LockInRefused ==
    [][(last_op'.op = "lock_in_choice"
        /\ phase \notin {"color_exploration", "typography_exploration"})
       => /\ last_op' = [op |-> "lock_in_choice", status |-> 400]
          /\ UNCHANGED <<phase, comparison_count, chosen_colors, chosen_typography>>]_vars

\* A lock-in has been refused on a session in stated_preferences that holds
\* a palette, a font pairing and a comparison_count above 0.
C25_Witness ==
    /\ last_op = [op |-> "lock_in_choice", status |-> 400]
    /\ phase = "stated_preferences"
    /\ comparison_count > 0
    /\ chosen_colors # {}
    /\ chosen_typography # {}

(***************************************************************************)
(* The phases a session created by create_session goes through             *)
(* (session_routes.py 28-36; comparison_routes.py 123-126, 356-399,        *)
(* 626-637; exploration_routes.py 179, 307; component_studio_routes.py     *)
(* 206-209; skill_routes.py 93).                                           *)
(***************************************************************************)
GetNextComparison == get_next_comparison

\* The submissions of the phase flow: option A without answers (the
\* transitions test comparison_count only).
PhaseChoices == {[choice |-> "a", answers |-> <<>>]}

SubmitPhaseComparison ==
    /\ Len(comparison_results) < MaxLog
    /\ \E choice_data \in PhaseChoices : submit_comparison_choice(choice_data)

\* The selections of the phase flow: the ones that lock the option in.
SelectPaletteLocked == \E o \in PaletteOptions : select_palette(o, FALSE)

SelectTypographyLocked == \E o \in TypographyOptions : select_typography(o, FALSE)

\* The approvals of the phase flow: of a group whose components are all
\* completed and that is not approved yet.
ApproveCompletedGroup ==
    \E g \in DOMAIN CHECKPOINT_GROUPS :
        /\ CHECKPOINT_GROUPS[g].id \notin SeqRange(load_studio_progress.checkpoint_approvals)
        /\ SeqRange(CHECKPOINT_GROUPS[g].components)
               \subseteq SeqRange(load_studio_progress.completed_components)
        /\ approve_checkpoint(CHECKPOINT_GROUPS[g].id)

\* Every request that writes the phase column, on a new session.
NextPhases ==
    \/ SubmitPhaseComparison
    \/ GetNextComparison
    \/ LockIn
    \/ SelectPaletteLocked
    \/ SelectTypographyLocked
    \/ lock_component
    \/ ApproveCompletedGroup
    \/ generate_skill

SpecPhases == Init /\ [][NextPhases]_vars

AuditSynthesizedRule ==
    /\ last_op.op = "synthesize_rules_from_patterns"
    /\ LET preferences ==
               aggregate_property_preferences(RulesComparisonDicts(comparison_results))
       IN  \E i \in DOMAIN last_op.rules, k \in DOMAIN preferences :
              /\ last_op.rules[i].operator = "="
              /\ preferences[k].property = last_op.rules[i].property
              /\ preferences[k].preferred_values # <<>>
              /\ last_op' =
                     [op |-> "audit_synthesized_rule",
                      rule |-> last_op.rules[i],
                      preferred |-> preferences[k].preferred_values[1],
                      violations |->
                          apply_rules_to_extracted_values(
                              [measurements |->
                                   <<<<last_op.rules[i].property,
                                       preferences[k].preferred_values[1]>>>>],
                              <<last_op.rules[i]>>, <<>>, <<>>)]
    /\ UNCHANGED <<phase, comparison_count, confidence_score, established_preferences,
                   chosen_colors, chosen_typography, studio_progress,
                   comparison_results, style_rules, requests>>

NextRoundTrip ==
    \/ SynthesizeRules
    \/ AuditSynthesizedRule

SpecRoundTrip == InitSynthesis /\ [][NextRoundTrip]_vars

\* C27: a rule that synthesize_rules_from_patterns emits with operator "="
\* for property p and preferred value v gives no violation when the audit
\* applies it to an observation whose only measurement is p = v.
C27_RoundTrip ==
    last_op.op = "audit_synthesized_rule" =>
        ViolationsOf(last_op.violations, {last_op.rule.rule_id}) = <<>>

(***************************************************************************)
(* The pair shown and the pair stored in dimension_isolation               *)
(* (comparison_routes.py 194-207, 265-318; variation_service.py 233-287).  *)
(***************************************************************************)
\* The number of dimension_isolation comparisons answered in the flow.
MaxPresentedRounds == 1

\* The response of GET comparison for the property selected and the pair
\* made for it.
PresentedResponse(property_to_test, pair) ==
    [op |-> "get_next_comparison", property_to_test |-> property_to_test,
     option_a |-> pair[1], option_b |-> pair[2]]

\* GET /{session_id}/comparison in dimension_isolation, with the pair of
\* the response; nothing is written.
get_next_presented_comparison ==
    /\ phase = "dimension_isolation"
    /\ \E property_to_test \in
              get_property_to_test(NextComparisonResultsDicts(comparison_results),
                                   tested_props(comparison_results)) :
          last_op' = PresentedResponse(property_to_test,
                                      PresentedIsolationPair(property_to_test))
    /\ UNCHANGED <<phase, comparison_count, confidence_score, established_preferences,
                   chosen_colors, chosen_typography, studio_progress,
                   comparison_results, style_rules, requests>>

\* POST /{session_id}/comparison/{comparison_id} answering the pair the
\* last GET showed.
submit_presented_choice ==
    /\ phase = "dimension_isolation"
    /\ last_op.op = "get_next_comparison"
    /\ comparison_count < 10 + MaxPresentedRounds
    /\ \E choice \in {"a", "b", "none"} :
          submit_comparison_choice([choice |-> choice, answers |-> <<>>])

NextPresented ==
    \/ get_next_presented_comparison
    \/ submit_presented_choice

SpecPresented == InitIsolation /\ [][NextPresented]_vars

CompletedUnapprovedGroups(progress) ==
    {g \in DOMAIN CHECKPOINT_GROUPS :
        /\ CHECKPOINT_GROUPS[g].id \notin SeqRange(progress.checkpoint_approvals)
        /\ SeqRange(CHECKPOINT_GROUPS[g].components)
               \subseteq SeqRange(progress.completed_components)}

\* C29: in every reachable studio state where some checkpoint group has
\* all its components completed, is not approved, and current_component is
\* None, get_studio_progress reports the first such group as
\* pending_checkpoint; this includes the state right after the last
\* component (toggle) is locked.
C29_PendingCheckpointReported ==
    (/\ CompletedUnapprovedGroups(load_studio_progress) # {}
     /\ load_studio_progress.current_component = Null)
    => get_studio_progress.pending_checkpoint
          = CHECKPOINT_GROUPS[CHOOSE g \in CompletedUnapprovedGroups(load_studio_progress) :
                \A h \in CompletedUnapprovedGroups(load_studio_progress) : g <= h].id

(***************************************************************************)
(* When get_session_rules synthesizes (rule_routes.py 46-81;               *)
(* component_studio_service.py 181-194).                                   *)
(***************************************************************************)
\* The session has a rule with source extracted.
HasExtractedRule == \E i \in DOMAIN style_rules : style_rules[i].source = "extracted"

\* C30: a get_session_rules request goes on to synthesize only when, as it
\* reads the rows, the session has no rule with source extracted and
\* comparison_count > 0; a get_session_rules request made while an
\* extracted rule exists (one synthesized earlier or one created by a
\* studio dimension choice) adds, changes and removes no rule, whatever the
\* comparison log holds by then; and a request that does synthesize leaves
\* the rows it found as they were.
C30_SynthesisOnlyWithoutExtracted ==
    [][/\ \A r \in RequestIds :
            (requests[r].pc = "idle" /\ requests'[r].pc = "get_session_rules")
            => (~HasExtractedRule /\ comparison_count > 0)
       /\ (last_op'.op = "get_session_rules" /\ NoRequestInFlight /\ HasExtractedRule)
            => (style_rules' = style_rules /\ requests' = requests)
       /\ (last_op'.op = "get_session_rules" /\ style_rules' # style_rules)
            => /\ \E r \in RequestIds : requests[r].pc = "get_session_rules"
               /\ Len(style_rules') >= Len(style_rules)
               /\ SubSeq(style_rules', 1, Len(style_rules)) = style_rules]_vars

\* A get_session_rules request has just been answered for a session whose
\* only extracted rules come from studio dimension choices, after its log
\* grew: the request synthesized nothing.
C30_Witness ==
    /\ last_op.op = "get_session_rules"
    /\ NoRequestInFlight
    /\ comparison_count > 0
    /\ comparison_results # <<>>
    /\ HasExtractedRule
    /\ \A i \in DOMAIN style_rules :
           style_rules[i].source = "extracted"
               => Slice(style_rules[i].rule_id, 1, 7) = "studio-"

====
